---- MODULE Spec2Model ----
(***************************************************************************)
(* State-machine model of the 120 kW CDU controller core.                  *)
(*                                                                         *)
(* The module holds several specifications over one set of variables:      *)
(*   Spec        control logic: processed register map, write callbacks,   *)
(*               write-enable / control-mode handling, the auto-control    *)
(*               loop with its pump-startup sequencer, the fan shutdown    *)
(*               timer and the component writer's operate_component        *)
(*   SpecMap     ProcessedRegisterMap.set_coil / set_register called with  *)
(*               arbitrary (address, value, force, trigger_callback)       *)
(*   SpecWriter  ComponentOperationTaskManager.operate_component called    *)
(*               with arbitrary (component, value, slave) under changing   *)
(*               transport availability, with its task queue               *)
(*   SpecPoll    MappingPollingTaskManager workers, mode watchdog and the  *)
(*               TCP reconnect supervisor around one TCP client            *)
(*   SpecClose   the close() calls made on the TCP client by update_mode,  *)
(*               the read-failure handler and the reconnect attempt        *)
(*                                                                         *)
(* Time is kept as ages: the value of time.time() - <stored timestamp> in  *)
(* seconds, advanced by Tick, Quantum seconds at a time, while the         *)
(* timestamp is in use.                                                    *)
(*                                                                         *)
(* A handler is an operator from the program state before the call to the  *)
(* program state after it. Besides the program's variables the state it    *)
(* returns lists what the call did: the operate_component calls (calls),   *)
(* the callbacks invoked (fired) and the steps and sensor reads of the     *)
(* control loop (log).                                                     *)
(***************************************************************************)
EXTENDS Integers, Sequences, FiniteSets, TLC

VARIABLES
    coils,       \* ProcessedRegisterMap.coils (modelled cells)
    regs,        \* ProcessedRegisterMap.registers (modelled cells)
    w,           \* ComponentOperationTaskManager: current_mode, accept_new_task, paused, last_write_values
    ac,          \* AutoControlManager fields and the number of live loop threads
    pids,        \* the three PidHelper instances (previous_error, integral)
    we_last,     \* apply_write_enable_effect.last
    fanTimer,    \* _fan_shutdown_timer: handle state and age
    conn,        \* what tcp_manager / rtu_manager .is_connected() return: [tcp, rtu]
    cbs,         \* ProcessedRegisterMap._write_coil_callbacks / _write_register_callbacks
    cfg,         \* configuration read at load: pump duty range, decimals, "enabled"
    queue,       \* ComponentOperationTaskManager.task_queue (SpecWriter)
    calls,       \* SpecWriter: the operate_component call made by the last action
    fired,       \* SpecMap: the callback invocations made by the last action
    submitted,   \* most recent value put on the task queue per (kind, address)
    poll,        \* SpecPoll: MappingPollingTaskManager and the connection managers
    tq,          \* SpecQueue: TaskQueueManager (priority queue, task counter, clock)
    sup,         \* SpecReconnect: a reconnect supervisor, its timers and its callers
    lf,          \* SpecReconnect: LowFrequencyTaskManager (RTU heartbeat)
    bio,         \* SpecBatch: the last ModbusBatchWriter / ModbusBatchReader call
    raw,         \* SpecRaw: RegisterMap of the polling scheduler (registers, coils)
    sched,       \* SpecShutdown: a BasePollingTaskManager, its workers and shutdown()
    mon,         \* SpecFault: _fault_time and the status code of one device, the clock
    ph,          \* SpecPid: one PidHelper object and what its last call returned
    drv,         \* SpecSync: the derivation thread and the one-shot mirror
    pt,          \* SpecTasks: the polling scheduler's tasks, workers and clock
    ww,          \* SpecJobs: the write workers, the transports and their supervisors
    bw,          \* SpecGuards: the batch writers' reentrancy flags and their callers
    cm,          \* SpecLocks: the connection managers, their locks and the threads that use them
    lp,          \* SpecLoop: the auto-control loop threads and the callers of start and stop
    tc           \* SpecClose: the TCP client of the polling scheduler and the close() calls made on it

vars == <<coils, regs, w, ac, pids, we_last, fanTimer, conn, cbs, cfg, queue,
          calls, fired, submitted, poll, tq, sup, lf, bio, raw, sched, mon, ph, drv,
          pt, ww, bw, cm, lp, tc>>

-----------------------------------------------------------------------------
(* Bounds of the model *)

NPumps == 2           \* len(CONFIG_CACHE["pumps"])
NFans == 1            \* len(CONFIG_CACHE["fans"])
NPVs == 1             \* len(CONFIG_CACHE["proportional_valve"])
NOutputs == 1         \* len(CONFIG_CACHE["output"])
MaxLoopThreads == 1   \* auto-control loop threads alive at once
Quantum == 10         \* seconds that pass in one Tick
MaxQueue == 2         \* jobs waiting in the writer's task queue
MaxSlave == 2         \* slave ids passed to operate_component: 1..MaxSlave

-----------------------------------------------------------------------------
(* Address map: device_data_manipulation.py *)

COIL_WRITE_ENABLE == 0
COIL_FAN_SWITCH_READ_START == 1
COIL_FAN_SWITCH_WRITE_START == 33
COIL_FAN_SWITCH_WRITE_END == 64
FAN_BATCH_SWITCH_COIL == 128
COIL_PUMP_SWITCH_WRITE_START == 97
COIL_PUMP_SWITCH_WRITE_END == 128
PUMP_BATCH_SWITCH_COIL == 129
COIL_IO_OUTPUT_WRITE_START == 266
COIL_IO_OUTPUT_WRITE_END == 298
IO_OUTPUT_BATCH_SWITCH_COIL == 298
CoilMapSize == 379

CONTROL_MODE_TARGET_FLOW_REGISTER == 395
CONTROL_MODE_TARGET_TEMP_REGISTER == 396
CONTROL_MODE_TARGET_PRESSUREDIFF_REGISTER == 397
CONTROL_MODE == 399
FAN_DUTY_WRITE_START == 432
FAN_DUTY_WRITE_END == 464
FAN_BATCH_DUTY_REGISTER == 560
PUMP_DUTY_READ_START == 600
PUMP_DUTY_WRITE_START == 632
PUMP_DUTY_WRITE_END == 664
PUMP_SPEED_START == 696
PUMP_BATCH_DUTY_REGISTER == 799
PV_DUTY_WRITE_START == 808
PV_DUTY_WRITE_END == 816
PV_BATCH_DUTY_REGISTER == 832
TEMP_VALUE_START == 900
PRESS_DIFF_START == 1032
FLOW_VALUE_START == 1100
RegMapSize == 65536

NoValue == -1    \* Python None where an unsigned value is expected

coil_write_ranges ==
    << <<COIL_FAN_SWITCH_WRITE_START, COIL_FAN_SWITCH_WRITE_END>>,
       <<COIL_PUMP_SWITCH_WRITE_START, COIL_PUMP_SWITCH_WRITE_END>>,
       <<COIL_IO_OUTPUT_WRITE_START, COIL_IO_OUTPUT_WRITE_END>>,
       <<FAN_BATCH_SWITCH_COIL, FAN_BATCH_SWITCH_COIL + 1>>,
       <<PUMP_BATCH_SWITCH_COIL, PUMP_BATCH_SWITCH_COIL + 1>>,
       <<IO_OUTPUT_BATCH_SWITCH_COIL, IO_OUTPUT_BATCH_SWITCH_COIL + 1>>,
       <<COIL_WRITE_ENABLE, COIL_WRITE_ENABLE + 1>> >>

register_write_ranges ==
    << <<CONTROL_MODE, CONTROL_MODE + 1>>,
       <<CONTROL_MODE_TARGET_FLOW_REGISTER, CONTROL_MODE_TARGET_FLOW_REGISTER + 1>>,
       <<CONTROL_MODE_TARGET_TEMP_REGISTER, CONTROL_MODE_TARGET_TEMP_REGISTER + 1>>,
       <<CONTROL_MODE_TARGET_PRESSUREDIFF_REGISTER, CONTROL_MODE_TARGET_PRESSUREDIFF_REGISTER + 1>>,
       <<FAN_DUTY_WRITE_START, FAN_DUTY_WRITE_END>>,
       <<PUMP_DUTY_WRITE_START, PUMP_DUTY_WRITE_END>>,
       <<PV_DUTY_WRITE_START, PV_DUTY_WRITE_END>>,
       <<FAN_BATCH_DUTY_REGISTER, FAN_BATCH_DUTY_REGISTER + 1>>,
       <<PUMP_BATCH_DUTY_REGISTER, PUMP_BATCH_DUTY_REGISTER + 1>>,
       <<PV_BATCH_DUTY_REGISTER, PV_BATCH_DUTY_REGISTER + 1>> >>

\* ProcessedRegisterMap._in_ranges
in_ranges(address, ranges) ==
    \E k \in 1..Len(ranges) : ranges[k][1] <= address /\ address < ranges[k][2]

\* ProcessedRegisterMap.get_coil / get_register: absent cells read as 0.
\* s.sensed holds the cells that the derivation pipeline rewrites every cycle,
\* with the values they have while the action runs.
get_coil(s, address) ==
    IF address \in DOMAIN s.coils THEN s.coils[address] ELSE 0

get_register(s, address) ==
    IF address \in DOMAIN s.regs THEN s.regs[address]
    ELSE IF address \in DOMAIN s.sensed THEN s.sensed[address]
    ELSE 0

Min(a, b) == IF a < b THEN a ELSE b
Max(a, b) == IF a > b THEN a ELSE b

\* for i in range(n): s = Op(s, i)
ForRange(Op(_, _), s0, n) ==
    LET it[i \in 0..n] == IF i = 0 THEN s0 ELSE Op(it[i - 1], i - 1)
    IN it[n]

-----------------------------------------------------------------------------
(* Component configuration: ComponentTaskParam, ComponentTaskParamManager *)

Pumps == {<<"pump", i>> : i \in 0..(NPumps - 1)}
Fans == {<<"fan", i>> : i \in 0..(NFans - 1)}
PVs == {<<"proportional_valve", i>> : i \in 0..(NPVs - 1)}
Outputs == {<<"output", i>> : i \in 0..(NOutputs - 1)}

\* ComponentTaskParamManager._load_config: fans, pumps and proportional valves
\* are registered; the "output" array is not
ParamNames == Fans \cup Pumps \cup PVs

NoField == ""     \* Python None where a field name is expected
NoKey == <<"none", NoValue>>
DutyField == "rw_d_duty_register_address"
SwitchField == "rw_b_switch_coil_address"

\* the "local" address of the writable field of each component on the PCBA
LocalAddress(name) ==
    CASE name[1] = "pump" -> name[2]
      [] name[1] = "proportional_valve" -> NPumps + name[2]
      [] OTHER -> name[2]

\* ComponentTaskParam._precompute_writable_fields with _pick_range_from_config:
\* field name -> (write_type, address, decimals, (min, max))
writable_fields(name, c) ==
    CASE name[1] = "pump" ->
           << [field |-> DutyField, wtype |-> "register", addr |-> LocalAddress(name),
               decimals |-> c.dec, min |-> c.min, max |-> c.max] >>
      [] name[1] = "proportional_valve" ->
           << [field |-> DutyField, wtype |-> "register", addr |-> LocalAddress(name),
               decimals |-> 0, min |-> NoValue, max |-> NoValue] >>
      [] name[1] = "fan" ->
           << [field |-> SwitchField, wtype |-> "coil", addr |-> LocalAddress(name),
               decimals |-> 0, min |-> NoValue, max |-> NoValue] >>
      [] OTHER -> << >>

\* every (write_type, address) a job can be put for
WriteKeys ==
    {<<"register", LocalAddress(n)>> : n \in Pumps \cup PVs}
        \cup {<<"coil", LocalAddress(n)>> : n \in Fans}

\* first writable field of the given write type (the loops in write_fan_switch,
\* write_pump_duty, write_pv_duty, write_io_output)
first_field_of_type(name, c, wtype) ==
    LET fs == writable_fields(name, c)
        ks == {k \in 1..Len(fs) : fs[k].wtype = wtype}
    IN IF ks = {} THEN NoField
       ELSE fs[CHOOSE k \in ks : \A j \in ks : k <= j].field

-----------------------------------------------------------------------------
(* ComponentOperationTaskManager: component_operation_task.py *)

to_u16(value) == value % 65536

Pow10(n) == LET p[k \in 0..n] == IF k = 0 THEN 1 ELSE 10 * p[k - 1] IN p[n]

\* update_mode that starts a fresh de-dup cache at every refresh
writer_update_mode_forgets(wr, c) ==
    LET fresh == [wr EXCEPT !.last_write_values = [k \in {} |-> NoValue]]
    IN IF c.tcp THEN [fresh EXCEPT !.current_mode = "tcp", !.accept_new_task = TRUE,
                                   !.paused = FALSE]
       ELSE IF c.rtu THEN [fresh EXCEPT !.current_mode = "rtu", !.accept_new_task = TRUE,
                                        !.paused = FALSE]
       ELSE [fresh EXCEPT !.current_mode = "none", !.accept_new_task = FALSE, !.paused = TRUE]

\* ComponentOperationTaskManager.update_mode
writer_update_mode(wr, c) ==
    IF c.tcp THEN [wr EXCEPT !.current_mode = "tcp", !.accept_new_task = TRUE, !.paused = FALSE]
    ELSE IF c.rtu THEN [wr EXCEPT !.current_mode = "rtu", !.accept_new_task = TRUE, !.paused = FALSE]
    ELSE [wr EXCEPT !.current_mode = "none", !.accept_new_task = FALSE, !.paused = TRUE]

\* ComponentOperationTaskManager._pick_first_writable for a one-entry value_dict
pick_first_writable(name, c, field) ==
    LET fs == writable_fields(name, c)
        ks == {k \in 1..Len(fs) : fs[k].field = field}
    IN IF ks = {} THEN 0 ELSE CHOOSE k \in ks : TRUE

\* the scale used for the range clamp (operate_component, "rw_d_duty" fields)
duty_scale(meta, c) ==
    IF meta.wtype = "register" /\ meta.field = DutyField
    THEN LET d == IF meta.decimals = 0 THEN c.fbdec ELSE meta.decimals
         IN IF d > 0 THEN Pow10(d) ELSE 1
    ELSE 1

\* compute_write_value without the clamp to the upper end of the range
compute_write_value_no_max(meta, c, value) ==
    LET scale == duty_scale(meta, c)
        lo == IF meta.min # NoValue THEN Max(value, meta.min * scale) ELSE value
    IN IF meta.wtype = "coil" THEN (IF lo # 0 THEN 1 ELSE 0) ELSE to_u16(lo)

\* the value operate_component computes for a field: clamp, then bit or U16
compute_write_value(meta, c, value) ==
    LET scale == duty_scale(meta, c)
        lo == IF meta.min # NoValue THEN Max(value, meta.min * scale) ELSE value
        hi == IF meta.max # NoValue THEN Min(lo, meta.max * scale) ELSE lo
    IN IF meta.wtype = "coil" THEN (IF hi # 0 THEN 1 ELSE 0) ELSE to_u16(hi)

\* the de-dup key of operate_component
last_key(meta, slave, mode) == <<meta.wtype, meta.addr>>

CallRec(name, key, value, slave, mode, result) ==
    [name |-> name, key |-> key, value |-> value, slave |-> slave, mode |-> mode,
     result |-> result]

\* operate_component that does not look at accept_new_task
operate_component_accepts_offline(s, name, field, value, slave) ==
    LET wr == writer_update_mode(s.w, s.conn)
        s1 == [s EXCEPT !.w = wr]
        done(key, v, result) ==
            [s1 EXCEPT !.calls = Append(@, CallRec(name, key, v, slave, wr.current_mode, result))]
    IN IF name \notin ParamNames \/ name \in s.cfg.disabled
            THEN done(NoKey, NoValue, "notfound")
       ELSE LET k == pick_first_writable(name, s.cfg, field)
            IN IF k = 0 THEN done(NoKey, NoValue, "nofield")
               ELSE LET meta == writable_fields(name, s.cfg)[k]
                        write_value == compute_write_value(meta, s.cfg, value)
                        key == last_key(meta, slave, wr.current_mode)
                    IN IF key \in DOMAIN wr.last_write_values
                          /\ wr.last_write_values[key] = write_value
                       THEN done(<<meta.wtype, meta.addr>>, write_value, "skip")
                       ELSE [s1 EXCEPT
                               !.w.last_write_values =
                                   [x \in (DOMAIN @) \cup {key} |->
                                       IF x = key THEN write_value ELSE @[x]],
                               !.queue = Append(@, [name |-> name, value |-> write_value,
                                                    slave |-> slave, address |-> meta.addr,
                                                    write_type |-> meta.wtype]),
                               !.submitted[<<meta.wtype, meta.addr>>] = write_value,
                               !.calls = Append(@, CallRec(name, <<meta.wtype, meta.addr>>,
                                                           write_value, slave,
                                                           wr.current_mode, "submitted"))]

\* ComponentOperationTaskManager.operate_component(name, {field: value}, slave)
operate_component(s, name, field, value, slave) ==
    LET wr == writer_update_mode(s.w, s.conn)
        s1 == [s EXCEPT !.w = wr]
        done(key, v, result) ==
            [s1 EXCEPT !.calls = Append(@, CallRec(name, key, v, slave, wr.current_mode, result))]
    IN IF ~wr.accept_new_task THEN done(NoKey, NoValue, "offline")
       ELSE IF name \notin ParamNames \/ name \in s.cfg.disabled
            THEN done(NoKey, NoValue, "notfound")
       ELSE LET k == pick_first_writable(name, s.cfg, field)
            IN IF k = 0 THEN done(NoKey, NoValue, "nofield")
               ELSE LET meta == writable_fields(name, s.cfg)[k]
                        write_value == compute_write_value(meta, s.cfg, value)
                        key == last_key(meta, slave, wr.current_mode)
                    IN IF key \in DOMAIN wr.last_write_values
                          /\ wr.last_write_values[key] = write_value
                       THEN done(<<meta.wtype, meta.addr>>, write_value, "skip")
                       ELSE [s1 EXCEPT
                               !.w.last_write_values =
                                   [x \in (DOMAIN @) \cup {key} |->
                                       IF x = key THEN write_value ELSE @[x]],
                               !.queue = Append(@, [name |-> name, value |-> write_value,
                                                    slave |-> slave, address |-> meta.addr,
                                                    write_type |-> meta.wtype]),
                               !.submitted[<<meta.wtype, meta.addr>>] = write_value,
                               !.calls = Append(@, CallRec(name, <<meta.wtype, meta.addr>>,
                                                           write_value, slave,
                                                           wr.current_mode, "submitted"))]

-----------------------------------------------------------------------------
(* Device write functions, the HMI write callback and AutoControlManager:    *)
(* device_data_manipulation.py, auto_control.py.                             *)
(* Every operator takes the program state s and returns the state after the  *)
(* call; "auto" is the stack test of hmi_write_trigger: TRUE when a frame of *)
(* auto_control.py / AutoControlManager is on the call stack.                *)
(* A function calls another one with call(s, "name", <<arguments>>), which   *)
(* is the named operator applied to s and the arguments.                     *)

RECURSIVE call(_, _, _)

Note(s, tag) == [s EXCEPT !.log = Append(@, tag)]

\* write_fan_switch(fan_index, switch_on, force=force)
write_fan_switch(s, fan_index, switch_on, force) ==
    IF ~force /\ get_coil(s, COIL_WRITE_ENABLE) # 1 THEN s
    ELSE IF fan_index >= NFans THEN s
    ELSE LET fan_name == <<"fan", fan_index>>
             field == first_field_of_type(fan_name, s.cfg, "coil")
         IN IF fan_name \notin ParamNames \/ field = NoField THEN s
            ELSE call(s, "operate_component", <<fan_name, field, switch_on, 1>>)

\* write_pump_duty(pump_index, duty, force=force); the value is int(duty / 100)
write_pump_duty(s, pump_index, duty, force) ==
    IF ~force /\ get_coil(s, COIL_WRITE_ENABLE) # 1 THEN s
    ELSE IF pump_index >= NPumps THEN s
    ELSE LET pump_name == <<"pump", pump_index>>
             field == first_field_of_type(pump_name, s.cfg, "register")
         IN IF pump_name \notin ParamNames \/ field = NoField THEN s
            ELSE call(s, "operate_component", <<pump_name, field, duty \div 100, 1>>)

\* write_pv_duty(pv_index, duty, force=force); the value is int(duty)
write_pv_duty(s, pv_index, duty, force) ==
    IF ~force /\ get_coil(s, COIL_WRITE_ENABLE) # 1 THEN s
    ELSE IF pv_index >= NPVs THEN s
    ELSE LET pv_name == <<"proportional_valve", pv_index>>
             field == first_field_of_type(pv_name, s.cfg, "register")
         IN IF pv_name \notin ParamNames \/ field = NoField THEN s
            ELSE call(s, "operate_component", <<pv_name, field, duty, 1>>)

\* batch_write_pump_duty(duty, force=force): [st, ret]
batch_write_pump_duty(s, duty, force, auto) ==
    IF ~force /\ get_coil(s, COIL_WRITE_ENABLE) # 1 THEN [st |-> s, ret |-> FALSE]
    ELSE IF NPumps = 0 THEN [st |-> s, ret |-> FALSE]
    ELSE LET one(x, pump_index) ==
                 call(x, "set_register", <<PUMP_DUTY_WRITE_START + pump_index, duty, TRUE, auto>>)
         IN [st |-> ForRange(one, s, NPumps), ret |-> TRUE]

\* batch_write_pv_duty(duty, force=force): [st, ret]
batch_write_pv_duty(s, duty, force, auto) ==
    IF ~force /\ get_coil(s, COIL_WRITE_ENABLE) # 1 THEN [st |-> s, ret |-> FALSE]
    ELSE IF NPVs = 0 THEN [st |-> s, ret |-> FALSE]
    ELSE LET one(x, pv_index) ==
                 call(x, "set_register", <<PV_DUTY_WRITE_START + pv_index, duty, TRUE, auto>>)
         IN [st |-> ForRange(one, s, NPVs), ret |-> TRUE]

\* "from cdu120kw.control_logic.auto_control import auto_control_manager": the
\* first import runs the module, whose last statement constructs the manager;
\* AutoControlManager.__init__ registers its two callbacks
import_auto_control(s) ==
    IF s.ac.constructed THEN s
    ELSE [s EXCEPT !.ac.constructed = TRUE,
                   !.cbs.register = Append(@, "on_control_mode_change"),
                   !.cbs.coil = Append(@, "on_write_enable_change")]

\* AutoControlManager.stop_auto_control (the join changes no field)
stop_auto_control(s) ==
    IF ~s.ac.is_running THEN s
    ELSE Note([s EXCEPT !.ac.is_running = FALSE,
                        !.ac.stop_requested = TRUE,
                        !.ac.pump_startup_state = "idle",
                        !.ac.startAge = 0,
                        !.ac.metAge = NoValue], <<"stop">>)

\* AutoControlManager._request_stop
request_stop(s) == call([s EXCEPT !.ac.stop_requested = TRUE], "stop_auto_control", <<>>)

\* AutoControlManager._should_continue
should_continue(s) == ~s.ac.stop_requested /\ s.ac.is_running

\* AutoControlManager._set_pv_to_100_percent_for_mode_switch
set_pv_to_100_percent_for_mode_switch(s) ==
    LET done(r) == IF r.ret THEN [r.st EXCEPT !.ac.last_pv_duty = 10000] ELSE r.st
    IN done(call(s, "batch_write_pv_duty", <<10000, TRUE, TRUE>>))

\* AutoControlManager.start_auto_control
start_auto_control(s) ==
    IF s.ac.is_running THEN s
    ELSE IF get_coil(s, COIL_WRITE_ENABLE) # 1 THEN s
    ELSE IF get_register(s, CONTROL_MODE) \notin {2, 3, 4} THEN s
    ELSE LET s1 == call(s, "set_pv_to_100_percent_for_mode_switch", <<>>)
         IN Note([s1 EXCEPT !.ac.stop_requested = FALSE,
                            !.ac.pump_startup_state = "checking",
                            !.ac.startAge = 0,
                            !.ac.metAge = NoValue,
                            !.ac.is_running = TRUE,
                            !.ac.threads = @ + 1], <<"start">>)

\* _on_control_mode_change whose manual branch leaves the control thread alone
on_control_mode_change_manual_no_stop(s, address, value) ==
    IF address # CONTROL_MODE THEN s
    ELSE LET write_enable == get_coil(s, COIL_WRITE_ENABLE)
             switch(s1) ==
                 IF value = 1 THEN s1
                 ELSE IF value \in {2, 3, 4}
                      THEN (IF write_enable = 1 THEN call(s1, "start_auto_control", <<>>) ELSE s1)
                 ELSE call(s1, "stop_auto_control", <<>>)
         IN switch(call(s, "set_pv_to_100_percent_for_mode_switch", <<>>))

\* AutoControlManager._on_control_mode_change(address, value)
on_control_mode_change(s, address, value) ==
    IF address # CONTROL_MODE THEN s
    ELSE LET write_enable == get_coil(s, COIL_WRITE_ENABLE)
             switch(s1) ==
                 IF value = 1 THEN call(s1, "stop_auto_control", <<>>)
                 ELSE IF value \in {2, 3, 4}
                      THEN (IF write_enable = 1 THEN call(s1, "start_auto_control", <<>>) ELSE s1)
                 ELSE call(s1, "stop_auto_control", <<>>)
         IN switch(call(s, "set_pv_to_100_percent_for_mode_switch", <<>>))

\* AutoControlManager._on_write_enable_change(address, value)
on_write_enable_change(s, address, value) ==
    IF address # COIL_WRITE_ENABLE THEN s
    ELSE IF value = 0 THEN call(s, "request_stop", <<>>)
    ELSE IF value = 1 /\ get_register(s, CONTROL_MODE) \in {2, 3, 4}
         THEN call(s, "start_auto_control", <<>>)
    ELSE s

\* write_io_output(iooutput_index, switch_on, force=force)
write_io_output(s, iooutput_index, switch_on, force) ==
    IF ~force /\ get_coil(s, COIL_WRITE_ENABLE) # 1 THEN s
    ELSE IF iooutput_index >= NOutputs THEN s
    ELSE LET iooutput_name == <<"output", iooutput_index>>
             field == first_field_of_type(iooutput_name, s.cfg, "coil")
         IN IF iooutput_name \notin ParamNames \/ field = NoField THEN s
            ELSE call(s, "operate_component", <<iooutput_name, field, switch_on, 1>>)

\* batch_write_io_outputs({i: switch_on for every output i}, force=force): [st, ret]
batch_write_io_outputs(s, switch_on, force, auto) ==
    IF ~force /\ get_coil(s, COIL_WRITE_ENABLE) # 1 THEN [st |-> s, ret |-> FALSE]
    ELSE IF NOutputs = 0 THEN [st |-> s, ret |-> FALSE]
    ELSE LET one(x, iooutput_index) ==
                 call(x, "set_coil", <<COIL_IO_OUTPUT_WRITE_START + iooutput_index,
                                       IF switch_on # 0 THEN 1 ELSE 0, FALSE, TRUE, auto>>)
         IN [st |-> ForRange(one, s, NOutputs), ret |-> TRUE]

FanShutdownDelay == 15

\* apply_write_enable_effect without the cancellation of the fan shutdown
\* timer when write enable returns to 1
apply_write_enable_effect_keeps_timer(s, enable, auto) ==
    IF s.we_last = enable THEN s
    ELSE IF enable = 1
    THEN LET fan(x, i) == call(x, "write_fan_switch", <<i, 1, TRUE>>)
             s2 == ForRange(fan, s, NFans)
             pv(x, i) == call(x, "batch_write_pv_duty", <<10000, TRUE, auto>>).st
             s3 == ForRange(pv, s2, NPVs)
         IN [s3 EXCEPT !.we_last = enable]
    ELSE LET s1 == call(call(s, "import_auto_control", <<>>), "stop_auto_control", <<>>)
             pump(x, i) == call(x, "write_pump_duty", <<i, 0, TRUE>>)
             s2 == ForRange(pump, s1, NPumps)
         IN [s2 EXCEPT !.fanTimer = [state |-> "pending", age |-> 0],
                       !.we_last = enable]

\* apply_write_enable_effect(enable)
apply_write_enable_effect(s, enable, auto) ==
    IF s.we_last = enable THEN s
    ELSE IF enable = 1
    THEN LET s1 == [s EXCEPT !.fanTimer = [state |-> "none", age |-> 0]]
             fan(x, i) == call(x, "write_fan_switch", <<i, 1, TRUE>>)
             s2 == ForRange(fan, s1, NFans)
             pv(x, i) == call(x, "batch_write_pv_duty", <<10000, TRUE, auto>>).st
             s3 == ForRange(pv, s2, NPVs)
         IN [s3 EXCEPT !.we_last = enable]
    ELSE LET s1 == call(call(s, "import_auto_control", <<>>), "stop_auto_control", <<>>)
             pump(x, i) == call(x, "write_pump_duty", <<i, 0, TRUE>>)
             s2 == ForRange(pump, s1, NPumps)
         IN [s2 EXCEPT !.fanTimer = [state |-> "pending", age |-> 0],
                       !.we_last = enable]

\* delayed_shutdown, the function of the fan shutdown timer
delayed_shutdown(s) ==
    LET fan(x, idx) == call(x, "write_fan_switch", <<idx, 0, TRUE>>)
    IN ForRange(fan, s, NFans)

\* hmi_write_trigger without the rejection of manual pump control in the
\* automatic modes
hmi_write_trigger_no_reject(s, address, value, auto) ==
    LET write_enable == get_coil(s, COIL_WRITE_ENABLE)
    IN IF address = COIL_WRITE_ENABLE THEN call(s, "apply_write_enable_effect", <<value, auto>>)
       ELSE IF write_enable # 1 THEN s
       ELSE IF COIL_FAN_SWITCH_WRITE_START <= address /\ address < COIL_FAN_SWITCH_WRITE_END
            THEN call(s, "write_fan_switch",
                      <<address - COIL_FAN_SWITCH_WRITE_START, value, FALSE>>)
       ELSE IF PUMP_DUTY_WRITE_START <= address /\ address < PUMP_DUTY_WRITE_END
            THEN call(s, "write_pump_duty", <<address - PUMP_DUTY_WRITE_START, value, FALSE>>)
       ELSE IF PV_DUTY_WRITE_START <= address /\ address < PV_DUTY_WRITE_END
            THEN call(s, "write_pv_duty", <<address - PV_DUTY_WRITE_START, value, FALSE>>)
       ELSE IF COIL_IO_OUTPUT_WRITE_START <= address /\ address < COIL_IO_OUTPUT_WRITE_END
            THEN call(s, "write_io_output",
                      <<address - COIL_IO_OUTPUT_WRITE_START, value, FALSE>>)
       ELSE IF address = PUMP_BATCH_DUTY_REGISTER
            THEN call(s, "batch_write_pump_duty", <<value, FALSE, auto>>).st
       ELSE IF address = PV_BATCH_DUTY_REGISTER
            THEN call(s, "batch_write_pv_duty", <<value, FALSE, auto>>).st
       ELSE IF address = IO_OUTPUT_BATCH_SWITCH_COIL
            THEN call(s, "batch_write_io_outputs", <<value, FALSE, auto>>).st
       ELSE s

\* hmi_write_trigger(address, value)
hmi_write_trigger(s, address, value, auto) ==
    LET write_enable == get_coil(s, COIL_WRITE_ENABLE)
        control_mode == get_register(s, CONTROL_MODE)
    IN IF address = COIL_WRITE_ENABLE THEN call(s, "apply_write_enable_effect", <<value, auto>>)
       ELSE IF write_enable # 1 THEN s
       ELSE IF control_mode \in {2, 3, 4} /\ ~auto
               /\ ((PUMP_DUTY_WRITE_START <= address /\ address < PUMP_DUTY_WRITE_END)
                   \/ address = PUMP_BATCH_DUTY_REGISTER)
            THEN s
       ELSE IF COIL_FAN_SWITCH_WRITE_START <= address /\ address < COIL_FAN_SWITCH_WRITE_END
            THEN call(s, "write_fan_switch",
                      <<address - COIL_FAN_SWITCH_WRITE_START, value, FALSE>>)
       ELSE IF PUMP_DUTY_WRITE_START <= address /\ address < PUMP_DUTY_WRITE_END
            THEN call(s, "write_pump_duty", <<address - PUMP_DUTY_WRITE_START, value, FALSE>>)
       ELSE IF PV_DUTY_WRITE_START <= address /\ address < PV_DUTY_WRITE_END
            THEN call(s, "write_pv_duty", <<address - PV_DUTY_WRITE_START, value, FALSE>>)
       ELSE IF COIL_IO_OUTPUT_WRITE_START <= address /\ address < COIL_IO_OUTPUT_WRITE_END
            THEN call(s, "write_io_output",
                      <<address - COIL_IO_OUTPUT_WRITE_START, value, FALSE>>)
       ELSE IF address = PUMP_BATCH_DUTY_REGISTER
            THEN call(s, "batch_write_pump_duty", <<value, FALSE, auto>>).st
       ELSE IF address = PV_BATCH_DUTY_REGISTER
            THEN call(s, "batch_write_pv_duty", <<value, FALSE, auto>>).st
       ELSE IF address = IO_OUTPUT_BATCH_SWITCH_COIL
            THEN call(s, "batch_write_io_outputs", <<value, FALSE, auto>>).st
       ELSE s

\* cb(address, val) for a registered callback; every invocation is noted
invoke(s, cb, kind, address, val, auto) ==
    LET s1 == [s EXCEPT !.fired = Append(@, <<cb, kind, address, val>>)]
    IN CASE cb = "hmi_write_trigger" -> call(s1, "hmi_write_trigger", <<address, val, auto>>)
         [] cb = "on_control_mode_change" -> call(s1, "on_control_mode_change", <<address, val>>)
         [] cb = "on_write_enable_change" -> call(s1, "on_write_enable_change", <<address, val>>)
         [] OTHER -> s1

\* for cb in callbacks: cb(address, val); the list is read at every step, so a
\* callback registered while the loop runs is invoked by the same loop
run_callbacks(s, kind, k, address, val, auto) ==
    IF k > Len(s.cbs[kind]) THEN s
    ELSE call(call(s, "invoke", <<s.cbs[kind][k], kind, address, val, auto>>),
              "run_callbacks", <<kind, k + 1, address, val, auto>>)

\* ProcessedRegisterMap.set_coil(address, value, force, trigger_callback)
set_coil(s, address, value, force, trigger_callback, auto) ==
    IF ~(0 <= address /\ address < CoilMapSize) THEN s
    ELSE LET val == IF value # 0 THEN 1 ELSE 0
             s1 == IF address \in DOMAIN s.coils
                   THEN [s EXCEPT !.coils[address] = val] ELSE s
         IN IF ~trigger_callback \/ Len(s.cbs.coil) = 0
               \/ (~force /\ ~in_ranges(address, coil_write_ranges))
            THEN s1
            ELSE call(s1, "run_callbacks", <<"coil", 1, address, val, auto>>)

\* set_register that runs the callbacks for every address of the map
set_register_any_address(s, address, value, trigger_callback, auto) ==
    IF ~(0 <= address /\ address < RegMapSize) THEN s
    ELSE LET val == value
             s1 == IF address \in DOMAIN s.regs
                   THEN [s EXCEPT !.regs[address] = val] ELSE s
         IN IF ~trigger_callback \/ Len(s.cbs.register) = 0
            THEN s1
            ELSE call(s1, "run_callbacks", <<"register", 1, address, val, auto>>)

\* ProcessedRegisterMap.set_register(address, value, trigger_callback)
set_register(s, address, value, trigger_callback, auto) ==
    IF ~(0 <= address /\ address < RegMapSize) THEN s
    ELSE LET val == value
             s1 == IF address \in DOMAIN s.regs
                   THEN [s EXCEPT !.regs[address] = val] ELSE s
         IN IF ~trigger_callback \/ Len(s.cbs.register) = 0
               \/ ~in_ranges(address, register_write_ranges)
            THEN s1
            ELSE call(s1, "run_callbacks", <<"register", 1, address, val, auto>>)

-----------------------------------------------------------------------------
(* PidHelper (pid_helper.py) and the control loop of AutoControlManager *)

\* PID_CONFIG_CACHE entries "pid_pump" and "pid_pv": the documented example
Kp == 1
Ki == 0
Kd == 0
Dt == 1
OutputMin == 0
OutputMax == 100

StartupTimeout == 30       \* _check_pump_startup_state: age > 30
SustainTime == 4           \* _monitor_pump_startup: age >= 4
SpeedThreshold == 500      \* _check_pump_conditions: speed > 500
DutyThreshold == 500       \* _check_initial_pump_state: pump_duty > 500
MinimumDuty == 1000        \* _check_initial_pump_state: batch_write_pump_duty(1000)

\* PidHelper.__init__(kp, ki, kd, output_min, output_max, dt)
PidHelper(kp, ki, kd, output_min, output_max, dt) ==
    [kp |-> kp, ki |-> ki, kd |-> kd, output_min |-> output_min,
     output_max |-> output_max, dt |-> dt,
     previous_error |-> 0, integral |-> 0, previous_measured_value |-> 0]

\* PidHelper.calculate on the object h: [h, out]. The values are numbers of
\* the program's unit; the inputs are chosen so that every division the code
\* makes is exact
calculate_unclamped(h, target_value, measured_value, last_set_var, is_add) ==
    LET error == IF is_add THEN target_value - measured_value
                 ELSE measured_value - target_value
        proportional == h.kp * error
        integral == h.integral + error * h.dt
        derivative == (error - h.previous_error) \div h.dt
        output == proportional + h.ki * integral + h.kd * derivative + last_set_var
    IN [h |-> [h EXCEPT !.integral = integral, !.previous_error = error],
        out |-> output]

calculate(h, target_value, measured_value, last_set_var, is_add) ==
    LET error == IF is_add THEN target_value - measured_value
                 ELSE measured_value - target_value
        proportional == h.kp * error
        integral == h.integral + error * h.dt
        derivative == (error - h.previous_error) \div h.dt
        output == proportional + h.ki * integral + h.kd * derivative + last_set_var
    IN [h |-> [h EXCEPT !.integral = integral, !.previous_error = error],
        out |-> Max(h.output_min, Min(h.output_max, output))]

\* PidHelper.reset
reset(h) == [h EXCEPT !.previous_error = 0, !.integral = 0]

\* calculate on a PidHelper of the control loop, which is created from the
\* cache and keeps its tuning: [pid, out]
pid_calculate(pid, target_value, measured_value, last_set_var, is_add) ==
    LET h == [PidHelper(Kp, Ki, Kd, OutputMin, OutputMax, Dt) EXCEPT
                 !.previous_error = pid.previous_error, !.integral = pid.integral]
        r == calculate(h, target_value, measured_value, last_set_var, is_add)
    IN [pid |-> [previous_error |-> r.h.previous_error, integral |-> r.h.integral],
        out |-> r.out]

to_signed_unsigned(v) == v

\* "if v >= 0x8000: v -= 0x10000"
to_signed(v) == IF v >= 32768 THEN v - 65536 ELSE v

\* AutoControlManager._apply_pump_duty / _apply_pv_duty
apply_pump_duty(s, duty) ==
    IF ~should_continue(s) THEN s
    ELSE call(s, "batch_write_pump_duty", <<duty * 100, FALSE, TRUE>>).st

apply_pv_duty(s, duty) ==
    IF ~should_continue(s) THEN s
    ELSE call(s, "batch_write_pv_duty", <<duty * 100, FALSE, TRUE>>).st

\* the pump half of the three control functions: which PID, target and input
pump_step(s, which, target_reg, measured_reg) ==
    LET target == get_register(s, target_reg) \div 10
        measured == to_signed(get_register(s, measured_reg)) \div 10
        r == pid_calculate(s.pids[which], target, measured, s.ac.last_pump_duty, TRUE)
        new_pump_duty == Max(0, Min(100, r.out))
    IN [st |-> Note([s EXCEPT !.pids[which] = r.pid,
                              !.ac.last_pump_duty = new_pump_duty], <<"pid", which>>),
        duty |-> new_pump_duty]

\* the valve half of _flow_temp_control and _pressure_temp_control
pv_step(s) ==
    LET target == get_register(s, CONTROL_MODE_TARGET_TEMP_REGISTER) \div 10
        measured == get_register(s, TEMP_VALUE_START + 3) \div 10
        r == pid_calculate(s.pids.temp, target, measured, s.ac.last_pv_duty, FALSE)
        new_pv_duty == Max(0, Min(100, r.out))
    IN [st |-> Note([s EXCEPT !.pids.temp = r.pid,
                              !.ac.last_pv_duty = new_pv_duty], <<"pid", "temp">>),
        duty |-> new_pv_duty]

\* AutoControlManager._flow_only_control: [st, ret]
flow_only_control(s) ==
    LET apply(p) ==
            IF ~should_continue(p.st) THEN [st |-> p.st, ret |-> FALSE]
            ELSE [st |-> call(p.st, "apply_pump_duty", <<p.duty>>), ret |-> TRUE]
    IN IF ~should_continue(s) THEN [st |-> s, ret |-> FALSE]
       ELSE apply(call(s, "pump_step", <<"flow", CONTROL_MODE_TARGET_FLOW_REGISTER,
                                         FLOW_VALUE_START + 1>>))

\* AutoControlManager._flow_temp_control: [st, ret]
flow_temp_control(s) ==
    LET apply(p, v) ==
            IF ~should_continue(v.st) THEN [st |-> v.st, ret |-> FALSE]
            ELSE [st |-> call(call(v.st, "apply_pump_duty", <<p.duty>>),
                              "apply_pv_duty", <<v.duty>>),
                  ret |-> TRUE]
        valve(p) == apply(p, call(p.st, "pv_step", <<>>))
    IN IF ~should_continue(s) THEN [st |-> s, ret |-> FALSE]
       ELSE valve(call(s, "pump_step", <<"flow", CONTROL_MODE_TARGET_FLOW_REGISTER,
                                         FLOW_VALUE_START + 1>>))

\* AutoControlManager._pressure_temp_control: [st, ret]
pressure_temp_control(s) ==
    LET apply(p, v) ==
            IF ~should_continue(v.st) THEN [st |-> v.st, ret |-> FALSE]
            ELSE [st |-> call(call(v.st, "apply_pump_duty", <<p.duty>>),
                              "apply_pv_duty", <<v.duty>>),
                  ret |-> TRUE]
        valve(p) == apply(p, call(p.st, "pv_step", <<>>))
    IN IF ~should_continue(s) THEN [st |-> s, ret |-> FALSE]
       ELSE valve(call(s, "pump_step", <<"pressure", CONTROL_MODE_TARGET_PRESSUREDIFF_REGISTER,
                                         PRESS_DIFF_START>>))

\* AutoControlManager._check_pump_conditions: [st, ret]; the loop over the
\* pumps stops at the first pump whose speed is not above the threshold
check_pump_conditions(s) ==
    LET speed_ok(i) == get_register(s, PUMP_SPEED_START + i) > SpeedThreshold
        bad == {i \in 0..(NPumps - 1) : ~speed_ok(i)}
        last == IF bad = {} THEN NPumps - 1 ELSE CHOOSE i \in bad : \A j \in bad : i <= j
    IN [st |-> Note(s, <<"speed", [i \in 0..last |-> get_register(s, PUMP_SPEED_START + i)]>>),
        ret |-> bad = {}]

\* AutoControlManager._check_initial_pump_state: [st, ret]
check_initial_pump_state(s) ==
    LET pump_duty == get_register(s, PUMP_DUTY_READ_START)
        running(c) ==
            IF c.ret
            THEN [st |-> [c.st EXCEPT !.ac.pump_startup_state = "ready"], ret |-> TRUE]
            ELSE [st |-> [c.st EXCEPT !.ac.pump_startup_state = "starting"], ret |-> FALSE]
        started(r) ==
            IF r.ret
            THEN [st |-> [r.st EXCEPT !.ac.pump_startup_state = "starting"], ret |-> FALSE]
            ELSE [st |-> r.st, ret |-> FALSE]
    IN IF pump_duty > DutyThreshold
       THEN running(call(Note(s, <<"duty", pump_duty>>), "check_pump_conditions", <<>>))
       ELSE started(call(Note(Note(s, <<"duty", pump_duty>>), <<"min_duty">>),
                         "batch_write_pump_duty", <<MinimumDuty, TRUE, TRUE>>))

\* _monitor_pump_startup that declares the pumps ready at the second check
\* that meets the conditions, however short the time since the first
monitor_pump_startup_no_sustain(s0) ==
    LET monitor(s, conditions_met) ==
            IF conditions_met
            THEN IF s.ac.metAge = NoValue
                 THEN [st |-> [s EXCEPT !.ac.metAge = 0], ret |-> FALSE]
                 ELSE [st |-> [s EXCEPT !.ac.pump_startup_state = "ready"], ret |-> TRUE]
            ELSE [st |-> [s EXCEPT !.ac.metAge = NoValue], ret |-> FALSE]
        checked(c) == monitor(c.st, c.ret)
    IN checked(call(s0, "check_pump_conditions", <<>>))

\* AutoControlManager._monitor_pump_startup: [st, ret]
monitor_pump_startup(s0) ==
    LET monitor(s, conditions_met) ==
            IF conditions_met
            THEN IF s.ac.metAge = NoValue
                 THEN [st |-> [s EXCEPT !.ac.metAge = 0], ret |-> FALSE]
                 ELSE IF s.ac.metAge >= SustainTime
                 THEN [st |-> [s EXCEPT !.ac.pump_startup_state = "ready"], ret |-> TRUE]
                 ELSE [st |-> s, ret |-> FALSE]
            ELSE [st |-> [s EXCEPT !.ac.metAge = NoValue], ret |-> FALSE]
        checked(c) == monitor(c.st, c.ret)
    IN checked(call(s0, "check_pump_conditions", <<>>))

\* AutoControlManager._execute_pump_startup_sequence: [st, ret]
execute_pump_startup_sequence(s) ==
    IF s.ac.pump_startup_state = "checking" THEN call(s, "check_initial_pump_state", <<>>)
    ELSE IF s.ac.pump_startup_state = "starting" THEN call(s, "monitor_pump_startup", <<>>)
    ELSE [st |-> s, ret |-> FALSE]

\* _check_pump_startup_state that lets the pass go on to the control functions
\* whatever the startup sequence returns
check_pump_startup_state_no_wait(s) ==
    IF s.ac.pump_startup_state = "ready" THEN [st |-> s, ret |-> TRUE]
    ELSE IF s.ac.pump_startup_state = "failed"
         THEN [st |-> call(s, "stop_auto_control", <<>>), ret |-> FALSE]
    ELSE IF s.ac.startAge > StartupTimeout
         THEN [st |-> call(Note([s EXCEPT !.ac.pump_startup_state = "failed"], <<"failed">>),
                           "stop_auto_control", <<>>),
               ret |-> FALSE]
    ELSE [st |-> call(s, "execute_pump_startup_sequence", <<>>).st, ret |-> TRUE]

\* AutoControlManager._check_pump_startup_state: [st, ret]
check_pump_startup_state(s) ==
    IF s.ac.pump_startup_state = "ready" THEN [st |-> s, ret |-> TRUE]
    ELSE IF s.ac.pump_startup_state = "failed"
         THEN [st |-> call(s, "stop_auto_control", <<>>), ret |-> FALSE]
    ELSE IF s.ac.startAge > StartupTimeout
         THEN [st |-> call(Note([s EXCEPT !.ac.pump_startup_state = "failed"], <<"failed">>),
                           "stop_auto_control", <<>>),
               ret |-> FALSE]
    ELSE call(s, "execute_pump_startup_sequence", <<>>)

\* one pass of the while loop of AutoControlManager._auto_control_loop, run by
\* one live loop thread; the thread ends when the loop is left
auto_control_loop(s) ==
    LET exit(x) == Note([x EXCEPT !.ac.threads = @ - 1], <<"exit">>)
        control(x, control_mode) ==
            CASE control_mode = 3 -> call(x, "flow_only_control", <<>>)
              [] control_mode = 2 -> call(x, "flow_temp_control", <<>>)
              [] control_mode = 4 -> call(x, "pressure_temp_control", <<>>)
              [] OTHER -> [st |-> x, ret |-> FALSE]
        controlled(c) == IF c.ret THEN c.st ELSE exit(c.st)
        checked(r) ==
            IF ~r.ret THEN r.st
            ELSE controlled(control(r.st, get_register(r.st, CONTROL_MODE)))
    IN IF ~should_continue(s) THEN exit(s)
       ELSE checked(call(s, "check_pump_startup_state", <<>>))

\* f(*a) in program state s
call(s, f, a) ==
    CASE f = "operate_component" -> operate_component(s, a[1], a[2], a[3], a[4])
      [] f = "write_fan_switch" -> write_fan_switch(s, a[1], a[2], a[3])
      [] f = "write_pump_duty" -> write_pump_duty(s, a[1], a[2], a[3])
      [] f = "write_pv_duty" -> write_pv_duty(s, a[1], a[2], a[3])
      [] f = "write_io_output" -> write_io_output(s, a[1], a[2], a[3])
      [] f = "batch_write_pump_duty" -> batch_write_pump_duty(s, a[1], a[2], a[3])
      [] f = "batch_write_pv_duty" -> batch_write_pv_duty(s, a[1], a[2], a[3])
      [] f = "batch_write_io_outputs" -> batch_write_io_outputs(s, a[1], a[2], a[3])
      [] f = "import_auto_control" -> import_auto_control(s)
      [] f = "stop_auto_control" -> stop_auto_control(s)
      [] f = "request_stop" -> request_stop(s)
      [] f = "set_pv_to_100_percent_for_mode_switch" ->
             set_pv_to_100_percent_for_mode_switch(s)
      [] f = "start_auto_control" -> start_auto_control(s)
      [] f = "on_control_mode_change" -> on_control_mode_change(s, a[1], a[2])
      [] f = "on_write_enable_change" -> on_write_enable_change(s, a[1], a[2])
      [] f = "apply_write_enable_effect" -> apply_write_enable_effect(s, a[1], a[2])
      [] f = "delayed_shutdown" -> delayed_shutdown(s)
      [] f = "hmi_write_trigger" -> hmi_write_trigger(s, a[1], a[2], a[3])
      [] f = "invoke" -> invoke(s, a[1], a[2], a[3], a[4], a[5])
      [] f = "run_callbacks" -> run_callbacks(s, a[1], a[2], a[3], a[4], a[5])
      [] f = "set_coil" -> set_coil(s, a[1], a[2], a[3], a[4], a[5])
      [] f = "set_register" -> set_register(s, a[1], a[2], a[3], a[4])
      [] f = "apply_pump_duty" -> apply_pump_duty(s, a[1])
      [] f = "apply_pv_duty" -> apply_pv_duty(s, a[1])
      [] f = "pump_step" -> pump_step(s, a[1], a[2], a[3])
      [] f = "pv_step" -> pv_step(s)
      [] f = "flow_only_control" -> flow_only_control(s)
      [] f = "flow_temp_control" -> flow_temp_control(s)
      [] f = "pressure_temp_control" -> pressure_temp_control(s)
      [] f = "check_pump_conditions" -> check_pump_conditions(s)
      [] f = "check_initial_pump_state" -> check_initial_pump_state(s)
      [] f = "monitor_pump_startup" -> monitor_pump_startup(s)
      [] f = "execute_pump_startup_sequence" -> execute_pump_startup_sequence(s)
      [] f = "check_pump_startup_state" -> check_pump_startup_state(s)
      [] f = "auto_control_loop" -> auto_control_loop(s)

-----------------------------------------------------------------------------
(* Specification Spec: the control logic *)

\* pump duty range and decimals found in the configuration
Configs ==
    { [min |-> NoValue, max |-> NoValue, dec |-> 0, fbdec |-> 0, disabled |-> {}],
      [min |-> 10, max |-> 100, dec |-> 0, fbdec |-> 0, disabled |-> {}] }

CtlCoils == {COIL_WRITE_ENABLE}

CtlRegs ==
    {CONTROL_MODE, CONTROL_MODE_TARGET_FLOW_REGISTER, CONTROL_MODE_TARGET_TEMP_REGISTER,
     CONTROL_MODE_TARGET_PRESSUREDIFF_REGISTER,
     TEMP_VALUE_START + 3, PRESS_DIFF_START, FLOW_VALUE_START + 1}

\* what process_pump_data has stored when a pass of the control loop reads it:
\* the duty read of pump 0 (raw * 100) and every pump's speed
Readings ==
    {[duty |-> d, speed |-> sp] : d \in {0, 10}, sp \in [0..(NPumps - 1) -> {0, 600}]}

Sensed(in) ==
    [a \in {PUMP_DUTY_READ_START} \cup {PUMP_SPEED_START + i : i \in 0..(NPumps - 1)} |->
        IF a = PUMP_DUTY_READ_START THEN in.duty * 100
        ELSE in.speed[a - PUMP_SPEED_START]]

NoReadings == [a \in {} |-> 0]

\* the readings of a pass that looks at no sensor cell
NoReadingsIn == [duty |-> 0, speed |-> [i \in 0..(NPumps - 1) |-> 0]]

\* ProcessedRegisterMap.__init__ defaults, with T4, the pressure difference and
\* the flow F2 as the derivation pipeline has stored them (all at their targets)
InitRegs ==
    [r \in CtlRegs |->
        CASE r = CONTROL_MODE -> 1
          [] r = CONTROL_MODE_TARGET_FLOW_REGISTER -> 500
          [] r = CONTROL_MODE_TARGET_TEMP_REGISTER -> 250
          [] r = CONTROL_MODE_TARGET_PRESSUREDIFF_REGISTER -> 50
          [] r = TEMP_VALUE_START + 3 -> 250
          [] r = PRESS_DIFF_START -> 50
          [] r = FLOW_VALUE_START + 1 -> 500
          [] OTHER -> 0]

InitPid == [previous_error |-> 0, integral |-> 0]

\* AutoControlManager.__init__
InitAc ==
    [constructed |-> FALSE, is_running |-> FALSE, stop_requested |-> FALSE,
     pump_startup_state |-> "idle", startAge |-> 0, metAge |-> NoValue,
     last_pump_duty |-> 0, last_pv_duty |-> 10000, threads |-> 0]

\* ComponentOperationTaskManager.__init__
InitWriter ==
    [current_mode |-> "tcp", accept_new_task |-> TRUE, paused |-> FALSE,
     last_write_values |-> [x \in {} |-> 0]]

\* MappingPollingTaskManager.__init__ with both connection managers not yet
\* connected: current_mode = "none", then update_mode() pauses the scheduler.
\* client is "none" (None), "open" or "closed" (a client whose socket is not
\* open); link is whether the PCBA answers on the medium; held counts the
\* communication tasks that workers have taken from the queue and not put back
InitPoll ==
    [mode |-> "none", paused |-> TRUE,
     tcp |-> [connected |-> FALSE, client |-> "none"],
     rtu |-> [connected |-> FALSE, client |-> "none"],
     link |-> [tcp |-> FALSE, rtu |-> FALSE],
     held |-> 0]

\* TaskQueueManager.__init__: an empty PriorityQueue, _task_counter = 0
InitQueue == [heap |-> <<>>, task_counter |-> 0, now |-> 0]

\* BaseAutoReconnectManager.__init__ and the connection manager it watches
InitSup ==
    [active |-> FALSE, stop_requested |-> FALSE, reconnect_attempts |-> 0,
     is_reconnecting |-> FALSE, timers |-> 0, timer_pending |-> FALSE, running |-> 0,
     submitted |-> 0, pc |-> [wk \in {"heartbeat", "polling"} |-> "idle"]]

\* LowFrequencyTaskManager.__init__
InitLf == [rtu_heartbeat_enabled |-> TRUE, queued |-> 1]

\* no batch operation has been called yet
InitBio == [op |-> "none"]

RawSize == 2         \* modelled addresses of the raw image

\* RegisterMap.__init__: empty dictionaries (get() gives None)
InitRaw ==
    [registers |-> [a \in 0..(RawSize - 1) |-> NoValue],
     coils |-> [a \in 0..(RawSize - 1) |-> NoValue]]

SchedWorkers == 2    \* pool_workers
SchedTasks == 2      \* continuous tasks put on the queue by load_tasks

\* BasePollingTaskManager.__init__ and load_tasks: the events are clear, the
\* tasks are queued and no worker thread exists yet
InitSched ==
    [shutdown_event |-> FALSE, shutdown_flag |-> FALSE, paused |-> FALSE,
     queued |-> SchedTasks, caller |-> "idle",
     pc |-> [wk \in 1..SchedWorkers |-> "new"]]

\* _fault_time at import: no key is present (get(key, 0) gives 0); no status
\* has been written; branch, prev and since record the samples seen so far
InitMon ==
    [dev |-> "none", now |-> 1, fault_time |-> 0, status |-> NoValue,
     branch |-> "none", prev |-> "none", since |-> 0]

\* PidHelper.create_from_cache with the documented configuration
InitPh == [h |-> PidHelper(Kp, Ki, Kd, OutputMin, OutputMax, Dt), op |-> "none", was_reset |-> FALSE]

\* start_processed_register_sync has started sync_loop (first_run = True,
\* data_ready_check_count = 0), _first_sync_flag = False; runner is the
\* thread inside the body of _sync_read_to_write_registers_once and mi the
\* copy it makes next; bodies counts the executions of the body, mirror_fired
\* tells whether a copy invoked a callback, diffs holds the temperature
\* differences of the cycles so far, clean tells that nothing but the
\* mirror has written a mirrored cell since the body began, at_completion
\* that the last step was the last copy of the body
InitDrv ==
    [pc |-> "devices", first_run |-> TRUE, data_ready_check_count |-> 0,
     first_sync_flag |-> FALSE, runner |-> "none", mi |-> 0, other |-> "idle",
     bodies |-> 0, mirror_fired |-> FALSE, diffs |-> {}, first_done |-> FALSE,
     clean |-> TRUE, at_completion |-> FALSE]

TaskWorkers == 2     \* worker threads of the polling scheduler
TaskCount == 2       \* continuous read tasks of communication_task.json
MaxTaskClock == 2    \* the clock is followed up to this time

PollingTasks == 1..TaskCount

\* CommunicationTask.interval: task k polls every k time units
IntervalOf(task) == task

\* MappingPollingTaskManager after __init__ and load_tasks: every task has
\* been put on the queue once, in the order of the configuration, with
\* next_run = time.time(); no worker thread has taken anything. item[wk] is the
\* task_item worker wk has in hand (0: none)
InitPt ==
    [now |-> 0, shutdown_event |-> FALSE, shutdown_flag |-> FALSE, paused |-> FALSE,
     queue |-> [i \in 1..TaskCount |-> i],
     next_run |-> [k \in PollingTasks |-> 0],
     pc |-> [wk \in 1..TaskWorkers |-> "get"],
     item |-> [wk \in 1..TaskWorkers |-> 0]]

PoolWorkers == 2     \* ComponentOperationTaskManager.__init__: pool_workers
WriteRetries == 3    \* execute_write: "while retry < 3"
MaxJobs == 2         \* jobs in the write queue
MaxLineChanges == 2  \* times a line goes down or comes back

Transports == {"tcp", "rtu"}

WriteWorkers == 1..PoolWorkers

\* the application after AppController.__init__: nothing is connected, the
\* supervisors are not started, the writer is in its initial mode with an
\* empty queue and no worker thread. link is the state of the line and
\* changes the number of times a line has changed since the start, connected
\* the flag of each connection manager (its client is there whenever the flag
\* is set), reconnecting the is_reconnecting of each supervisor, callback
\* whether the RTU reconnect callback waits in the thread pool. queue counts
\* the jobs on the task queue; job tells whether the worker has one in hand;
\* retry, writer, manager and reconnect_mgr are the worker's locals in
\* execute_write.
InitWw ==
    [link |-> [t \in Transports |-> FALSE], changes |-> 0,
     connected |-> [t \in Transports |-> FALSE],
     reconnecting |-> [t \in Transports |-> FALSE],
     callback |-> FALSE,
     current_mode |-> "tcp", accept_new_task |-> TRUE, paused |-> FALSE,
     queue |-> 0,
     pc |-> [wk \in WriteWorkers |-> "new"],
     job |-> [wk \in WriteWorkers |-> FALSE],
     retry |-> [wk \in WriteWorkers |-> 0],
     writer |-> [wk \in WriteWorkers |-> "none"],
     manager |-> [wk \in WriteWorkers |-> "none"],
     reconnect_mgr |-> [wk \in WriteWorkers |-> "none"]]

\* the threads that call the batch writers and the kinds each of them writes:
\* the HMI callback thread (hmi_write_trigger), the auto-control loop and the
\* IO-control thread
BatchCallers == {"hmi", "auto", "io"}

BatchKinds == {"pump", "pv", "io"}

KindsOf(th) ==
    CASE th = "hmi" -> {"pump", "pv", "io"}
      [] th = "auto" -> {"pump", "pv"}
      [] OTHER -> {"io"}

\* the function attributes _executing as the module is loaded, no call begun
InitBw ==
    [executing |-> [k \in BatchKinds |-> FALSE],
     pc |-> [th \in BatchCallers |-> "idle"],
     kind |-> [th \in BatchCallers |-> "none"],
     result |-> [th \in BatchCallers |-> "none"]]

\* the threads that take a connection_lock: the polling worker, the timer
\* threads of the two supervisors, a write worker and the RTU heartbeat
LockThreads == {"poll", "sup_tcp", "sup_rtu", "write", "hb"}

\* the managers as constructed (client None, connected False, lock free), the
\* polling scheduler in mode "tcp", no thread started
InitCm ==
    [link |-> [t \in Transports |-> FALSE],
     connected |-> [t \in Transports |-> FALSE],
     client |-> [t \in Transports |-> FALSE],
     lock |-> [t \in Transports |-> "free"],
     reconnecting |-> [t \in Transports |-> FALSE],
     callback |-> FALSE,
     current_mode |-> "tcp",
     paused |-> FALSE,
     started |-> FALSE,
     pc |-> "idle", reader |-> "none", manager |-> "none", reconnect_mgr |-> "none",
     sup_pc |-> [t \in Transports |-> "idle"],
     aux_pc |-> "idle", aux_t |-> "none"]

\* the TCP manager as constructed (client None, connected False) with its
\* supervisor started and in its reconnect loop, the RTU manager not
\* connected, the polling scheduler in mode "none" and its worker idle; no
\* close() has been called
InitTc ==
    [link |-> [t \in Transports |-> FALSE],
     connected |-> FALSE, client |-> "none", rtu |-> FALSE,
     current_mode |-> "none", paused |-> TRUE, reconnecting |-> TRUE,
     pc |-> "idle", reader |-> "none", is_bit |-> FALSE,
     closes |-> 0, bare |-> FALSE, switched |-> FALSE, late |-> FALSE]

LoopSlots == 3       \* loop threads of the auto control that can be alive at once

\* the threads that call start_auto_control and stop_auto_control: the one
\* that runs _on_control_mode_change and the one that runs _on_write_enable_change
LoopCallers == {"mode", "enable"}

\* AutoControlManager as constructed: not running, no loop thread
InitLp ==
    [is_running |-> FALSE, stop_requested |-> FALSE,
     thread |-> [i \in 1..LoopSlots |-> "none"], control_thread |-> 0,
     caller |-> [c \in LoopCallers |-> "idle"]]

\* the units of the concurrency specifications, as constructed
LateInit == pt = InitPt /\ ww = InitWw /\ bw = InitBw /\ cm = InitCm /\ lp = InitLp /\ tc = InitTc

LateFrame == UNCHANGED <<pt, ww, bw, cm, lp, tc>>

\* the units that have a specification of their own, as constructed
UnitsInit ==
    /\ bio = InitBio /\ raw = InitRaw /\ sched = InitSched /\ mon = InitMon /\ ph = InitPh
    /\ drv = InitDrv
    /\ LateInit

UnitsFrame == UNCHANGED <<bio, raw, sched, mon, ph, drv>> /\ LateFrame

Init ==
    /\ coils = [c \in CtlCoils |-> 0]
    /\ regs = InitRegs
    /\ w = InitWriter
    /\ ac = InitAc
    /\ pids = [flow |-> InitPid, temp |-> InitPid, pressure |-> InitPid]
    /\ we_last = NoValue
    /\ fanTimer = [state |-> "none", age |-> 0]
    /\ conn = [tcp |-> TRUE, rtu |-> FALSE]
    /\ cbs = [coil |-> <<"hmi_write_trigger">>, register |-> <<"hmi_write_trigger">>]
    /\ cfg \in Configs
    /\ queue = <<>>
    /\ calls = <<>>
    /\ fired = <<>>
    /\ submitted = [k \in WriteKeys |-> NoValue]
    /\ poll = InitPoll
    /\ tq = InitQueue
    /\ sup = InitSup
    /\ lf = InitLf
    /\ UnitsInit

\* the program state an action starts from
State ==
    [coils |-> coils, regs |-> regs, w |-> w, ac |-> ac, pids |-> pids,
     we_last |-> we_last, fanTimer |-> fanTimer, conn |-> conn, cbs |-> cbs,
     cfg |-> cfg, queue |-> <<>>, submitted |-> submitted,
     calls |-> <<>>, fired |-> <<>>, log |-> <<>>, sensed |-> NoReadings]

Bounded(s) == s.ac.threads <= MaxLoopThreads

\* the program's variables after a handler has returned state s
CommitControl(s) ==
    /\ Bounded(s)
    /\ coils' = s.coils
    /\ regs' = s.regs
    /\ w' = s.w
    /\ ac' = s.ac
    /\ pids' = s.pids
    /\ we_last' = s.we_last
    /\ fanTimer' = s.fanTimer
    /\ conn' = conn
    /\ cbs' = s.cbs
    /\ cfg' = s.cfg
    /\ queue' = <<>>
    /\ calls' = <<>>
    /\ fired' = <<>>
    /\ submitted' = s.submitted

Commit(s) ==
    /\ CommitControl(s)
    /\ UNCHANGED <<poll, tq, sup, lf>>
    /\ UnitsFrame

HmiCoilInputs == {<<COIL_WRITE_ENABLE, 0>>, <<COIL_WRITE_ENABLE, 1>>}
HmiRegisterInputs ==
    {<<CONTROL_MODE, m>> : m \in {1, 2, 3, 4}}
        \cup {<<a, 1000>> : a \in {PUMP_DUTY_WRITE_START, PUMP_BATCH_DUTY_REGISTER}}
        \cup {<<a, 10000>> : a \in {PV_DUTY_WRITE_START, PV_BATCH_DUTY_REGISTER}}

\* the program state with what tcp_manager.is_connected() returns while the
\* action runs (the transport managers themselves are part of SpecPoll)
StateWith(tcp_ok) == [State EXCEPT !.conn = [tcp |-> tcp_ok, rtu |-> FALSE]]

\* an input the action never looks at is given one value only: the transport
\* is asked for only by operate_component, a sensor cell only by the checks
\* that note what they read
TransportAsked(s, tcp_ok) == s.calls = <<>> => tcp_ok

ReadingsAsked(s, in) ==
    LET duty_read == \E k \in 1..Len(s.log) : s.log[k][1] = "duty"
        speed_read(i) == \E k \in 1..Len(s.log) :
                            s.log[k][1] = "speed" /\ i \in DOMAIN s.log[k][2]
    IN /\ duty_read \/ in.duty = 0
       /\ \A i \in 0..(NPumps - 1) : speed_read(i) \/ in.speed[i] = 0

\* CduDataBlock.setValues, FC5: processed_reg_map.set_coil(address, v)
AfterHmiCoil(address, v, tcp_ok) ==
    call(StateWith(tcp_ok), "set_coil", <<address, v, FALSE, TRUE, FALSE>>)

HmiSetCoil(address, v, tcp_ok) ==
    \E s \in {AfterHmiCoil(address, v, tcp_ok)} :
        TransportAsked(s, tcp_ok) /\ Commit(s)

\* CduDataBlock.setValues, FC6/FC16: processed_reg_map.set_register(address, to_u16(v))
AfterHmiRegister(address, v, tcp_ok) ==
    call(StateWith(tcp_ok), "set_register", <<address, to_u16(v), TRUE, FALSE>>)

HmiSetRegister(address, v, tcp_ok) ==
    \E s \in {AfterHmiRegister(address, v, tcp_ok)} :
        TransportAsked(s, tcp_ok) /\ Commit(s)

\* one pass of the auto-control loop by a live loop thread
AfterLoop(in, tcp_ok) ==
    call([StateWith(tcp_ok) EXCEPT !.sensed = Sensed(in)], "auto_control_loop", <<>>)

\* the sensor cells are looked at only by the startup checks, which run in
\* the states checking and starting (_execute_pump_startup_sequence)
LoopStep(in, tcp_ok) ==
    /\ ac.threads > 0
    /\ ac.pump_startup_state \notin {"checking", "starting"} =>
          in.duty = 0 /\ \A i \in 0..(NPumps - 1) : in.speed[i] = 0
    /\ \E s \in {AfterLoop(in, tcp_ok)} :
          /\ TransportAsked(s, tcp_ok)
          /\ ReadingsAsked(s, in)
          /\ Commit(s)

\* the fan shutdown timer expires and runs delayed_shutdown
AfterFanTimer(tcp_ok) ==
    call([StateWith(tcp_ok) EXCEPT !.fanTimer.state = "fired", !.fanTimer.age = 0],
         "delayed_shutdown", <<>>)

FanTimerFire(tcp_ok) ==
    /\ fanTimer.state = "pending"
    /\ fanTimer.age >= FanShutdownDelay
    /\ \E s \in {AfterFanTimer(tcp_ok)} :
          /\ TransportAsked(s, tcp_ok)
          /\ Commit(s)

\* Quantum seconds pass: every timestamp in use ages; an age stops at the first
\* value that satisfies the comparison the code makes with it, and the fan
\* shutdown timer expires when its delay is reached
Age(age, step, reached) == IF age + step >= reached THEN reached ELSE age + step

Tick ==
    LET startInUse == ac.is_running /\ ac.pump_startup_state \in {"checking", "starting"}
        metInUse == startInUse /\ ac.metAge # NoValue
        s == [State EXCEPT
                !.ac.startAge = IF startInUse THEN Age(@, Quantum, StartupTimeout + 1) ELSE @,
                !.ac.metAge = IF metInUse THEN Age(@, Quantum, SustainTime) ELSE @,
                !.fanTimer.age = IF fanTimer.state = "pending"
                                 THEN Age(@, Quantum, FanShutdownDelay) ELSE @]
    IN /\ ~(fanTimer.state = "pending" /\ fanTimer.age >= FanShutdownDelay)
       /\ (s.ac # ac \/ s.fanTimer # fanTimer)
       /\ \E x \in {s} : Commit(x)

Next ==
    \/ \E p \in HmiCoilInputs, tcp_ok \in BOOLEAN : HmiSetCoil(p[1], p[2], tcp_ok)
    \/ \E p \in HmiRegisterInputs, tcp_ok \in BOOLEAN : HmiSetRegister(p[1], p[2], tcp_ok)
    \/ \E in \in Readings, tcp_ok \in BOOLEAN : LoopStep(in, tcp_ok)
    \/ \E tcp_ok \in BOOLEAN : FanTimerFire(tcp_ok)
    \/ Tick

Spec == Init /\ [][Next]_vars

-----------------------------------------------------------------------------
(* Properties of Spec *)

PumpKey(name) == <<"register", LocalAddress(name)>>
FanKey(name) == <<"coil", LocalAddress(name)>>

AutoModes == {2, 3, 4}

\* the operate_component calls of a handler that put a job on the task queue
Submits(s) == {k \in 1..Len(s.calls) : s.calls[k].result = "submitted"}

\* C1: when coil 0 is written from 1 to 0 while a transport is connected, then
\* once the write-enable handling has completed the most recent duty value
\* submitted to the writer for every configured pump is 0, whatever the
\* configured duty range and the content of the de-dup cache.
C1_PumpsStoppedOnFall ==
    coils[COIL_WRITE_ENABLE] = 1 =>
        \A s \in {AfterHmiCoil(COIL_WRITE_ENABLE, 0, TRUE)} :
            \A p \in Pumps : s.submitted[PumpKey(p)] = 0

PumpDutyWriteRegisters ==
    {PUMP_DUTY_WRITE_START + i : i \in 0..(NPumps - 1)} \cup {PUMP_BATCH_DUTY_REGISTER}
PvDutyWriteRegisters ==
    {PV_DUTY_WRITE_START + i : i \in 0..(NPVs - 1)} \cup {PV_BATCH_DUTY_REGISTER}
HmiDutyValues == {0, 1000, 5000}

\* write enable is 1 and the control mode is automatic
AutoEnabled == coils[COIL_WRITE_ENABLE] = 1 /\ regs[CONTROL_MODE] \in AutoModes

\* C2 as stated: while the control mode is in {2,3,4} and write enable is 1, a
\* write of the HMI slave to any actuator duty write register (pump or valve,
\* single or batch) causes no operate_component call.
C2_HmiDutyWritesRejected ==
    AutoEnabled =>
        \A a \in PumpDutyWriteRegisters \cup PvDutyWriteRegisters :
            \A v \in HmiDutyValues : \A tcp_ok \in BOOLEAN :
                AfterHmiRegister(a, v, tcp_ok).calls = <<>>

\* C2 amended: while the control mode is in {2,3,4} and write enable is 1, a
\* write of the HMI slave to a pump duty write register (PUMP_DUTY_WRITE[i] or
\* the pump batch register 799) causes no operate_component call.
C2_HmiPumpDutyWritesRejected ==
    AutoEnabled =>
        \A a \in PumpDutyWriteRegisters :
            \A v \in HmiDutyValues : \A tcp_ok \in BOOLEAN :
                AfterHmiRegister(a, v, tcp_ok).calls = <<>>

\* in an automatic mode an HMI write to a pump duty register runs the write
\* callback and is rejected there, where the same write made from the control
\* loop is operated
C2_Witness ==
    /\ AutoEnabled
    /\ \E a \in PumpDutyWriteRegisters : \E v \in HmiDutyValues :
          /\ \A s \in {AfterHmiRegister(a, v, TRUE)} :
                /\ \E k \in 1..Len(s.fired) : s.fired[k][1] = "hmi_write_trigger"
                /\ s.calls = <<>>
          /\ call(StateWith(TRUE), "set_register", <<a, v, TRUE, TRUE>>).calls # <<>>

\* the handling has left write enable 1 and an automatic control mode, and
\* the control loop runs with its pump startup begun
RunsWhenAutoEnabled(s) ==
    (s.coils[COIL_WRITE_ENABLE] = 1 /\ s.regs[CONTROL_MODE] \in AutoModes) =>
        s.ac.is_running /\ s.ac.pump_startup_state # "idle"

\* C3: after a callback-triggering write to CONTROL_MODE or to coil 0 has been
\* handled and leaves write enable 1 with the control mode in {2,3,4}, the
\* control loop is running (is_running, pump startup not idle), for every write
\* history, the first writes after boot included.
C3_AutoEnabledRuns ==
    \A tcp_ok \in BOOLEAN :
        /\ \A v \in {0, 1} : RunsWhenAutoEnabled(AfterHmiCoil(COIL_WRITE_ENABLE, v, tcp_ok))
        /\ \A m \in {1, 2, 3, 4} : RunsWhenAutoEnabled(AfterHmiRegister(CONTROL_MODE, m, tcp_ok))

\* once the control manager's module has been loaded, its callbacks are
\* registered and the same writes do start the loop
C3_AutoEnabledRunsOnceLoaded ==
    ac.constructed =>
        \A tcp_ok \in BOOLEAN :
            /\ \A v \in {0, 1} : RunsWhenAutoEnabled(AfterHmiCoil(COIL_WRITE_ENABLE, v, tcp_ok))
            /\ \A m \in {1, 2, 3, 4} : RunsWhenAutoEnabled(AfterHmiRegister(CONTROL_MODE, m, tcp_ok))

\* a fall of write enable has scheduled the fan shutdown and its timer has
\* not fired
ShutdownPending == fanTimer.state = "pending"

\* the handler operates a fan switch with value 0
FanOffCalls(s) == {k \in 1..Len(s.calls) : s.calls[k].name \in Fans /\ s.calls[k].value = 0}

\* the handling of coil 0 := 1 has cancelled the timer, made no fan-off call
\* and left 1 as the last switch value submitted for every fan
CancelledWithFansOn(s) ==
    /\ s.fanTimer.state = "none"
    /\ FanOffCalls(s) = {}
    /\ \A f \in Fans : s.submitted[FanKey(f)] = 1

\* a step submits the switch value 0 for a fan
FanOffSubmitted == \E f \in Fans : submitted'[FanKey(f)] = 0 /\ submitted[FanKey(f)] # 0

\* a fan-off value is submitted only by the timer of a fall since which write
\* enable has remained 0, 15 s after that fall
FanOffOnlyByExpiredTimer ==
    FanOffSubmitted =>
        /\ ShutdownPending /\ fanTimer.age >= FanShutdownDelay
        /\ coils[COIL_WRITE_ENABLE] = 0 /\ coils'[COIL_WRITE_ENABLE] = 0
        /\ fanTimer'.state = "fired"

StartupTimedOut ==
    /\ ac.threads > 0 /\ ac.is_running /\ ~ac.stop_requested
    /\ ac.pump_startup_state \in {"checking", "starting"}
    /\ ac.startAge > StartupTimeout

PidSteps(s) == {k \in 1..Len(s.log) : s.log[k][1] = "pid"}

\* C11: if pump startup has not reached ready within 30 s of the start, then
\* after the pass of the control loop that handles the timeout the startup
\* state is failed, is_running is false and the pass has executed no PID step.
C11_TimeoutEndsFailed ==
    StartupTimedOut =>
        \A in \in Readings : \A tcp_ok \in BOOLEAN :
            \A s \in {AfterLoop(in, tcp_ok)} :
                /\ s.ac.pump_startup_state = "failed"
                /\ ~s.ac.is_running
                /\ PidSteps(s) = {}

\* what the code does at the timeout: the state failed is overwritten by idle
C11_TimeoutEndsIdle ==
    StartupTimedOut =>
        \A in \in Readings : \A tcp_ok \in BOOLEAN :
            \A s \in {AfterLoop(in, tcp_ok)} :
                /\ s.ac.pump_startup_state = "idle"
                /\ \E k \in 1..Len(s.log) : s.log[k] = <<"failed">>
                /\ ~s.ac.is_running /\ s.ac.stop_requested
                /\ PidSteps(s) = {}
                /\ s.calls = <<>>

\* a pass of the control loop by a live loop thread is possible
LoopAlive == ac.threads > 0

\* the sensor readings a pass can look at: only the startup checks of the
\* states checking and starting read the sensor cells
PassReadings ==
    IF ac.pump_startup_state \in {"checking", "starting"} THEN Readings ELSE {NoReadingsIn}

\* every operate_component call of the pass belongs to the minimum-duty write
\* that the state checking makes: the pass has noted the write, and each call
\* is for a pump and carries the duty 1000 / 100
OnlyMinimumDutyCalls(s) ==
    s.calls # <<>> =>
        /\ ac.pump_startup_state = "checking"
        /\ \E k \in 1..Len(s.log) : s.log[k] = <<"min_duty">>
        /\ \A k \in 1..Len(s.calls) :
              /\ s.calls[k].name \in Pumps
              /\ s.calls[k].result \in {"submitted", "skip"} => s.calls[k].value = 10

ReadyPassSteps ==
    /\ LoopAlive
    /\ ac.pump_startup_state = "ready"
    /\ \A s \in {AfterLoop(NoReadingsIn, TRUE)} : PidSteps(s) # {} /\ s.calls # <<>>

\* the readings of a startup check, on both sides of the thresholds: the duty
\* read of pump 0 (500 or 600 after the scaling by 100) and every pump's speed
StartupReadings ==
    {[duty |-> d, speed |-> sp] : d \in {0, 5, 6}, sp \in [0..(NPumps - 1) -> {500, 501}]}

SpeedsMet(in) == \A i \in 0..(NPumps - 1) : in.speed[i] > 500
DutyMet(in) == in.duty * 100 > 500

\* the sustain timer has run for 4 s since the first check that met the
\* conditions, no check having failed since (a failed check clears it)
Sustained == ac.metAge # NoValue /\ ac.metAge >= 4

\* the pass handles the startup timeout instead of running a startup check
TimedOut == ac.startAge > StartupTimeout

\* what a pass of the loop that reads "in" makes of the startup state
StartupPass(in, tcp_ok, s) ==
    /\ s.ac.pump_startup_state = "ready" <=>
          /\ ~TimedOut
          /\ \/ ac.pump_startup_state = "checking" /\ DutyMet(in) /\ SpeedsMet(in)
             \/ ac.pump_startup_state = "starting" /\ SpeedsMet(in) /\ Sustained
    /\ (ac.pump_startup_state = "starting" /\ ~TimedOut /\ ~SpeedsMet(in)) =>
          s.ac.pump_startup_state = "starting" /\ s.ac.metAge = NoValue
    /\ (ac.pump_startup_state = "starting" /\ ~TimedOut /\ SpeedsMet(in) /\ ~Sustained) =>
          /\ s.ac.pump_startup_state = "starting"
          /\ s.ac.metAge = (IF ac.metAge = NoValue THEN 0 ELSE ac.metAge)
    /\ (ac.pump_startup_state = "checking" /\ ~TimedOut /\ ~DutyMet(in)) =>
          /\ s.ac.pump_startup_state = "starting"
          /\ \E k \in 1..Len(s.log) : s.log[k] = <<"min_duty">>
          /\ \A n \in Pumps : \E k \in 1..Len(s.calls) : s.calls[k].name = n
          /\ tcp_ok => \A n \in Pumps : s.submitted[PumpKey(n)] = 10

\* a step turns the startup state into ready
BecomesReady == ac'.pump_startup_state = "ready" /\ ac.pump_startup_state # "ready"

PvKey(name) == <<"register", LocalAddress(name)>>

ModeCallbackRegistered ==
    \E k \in 1..Len(cbs.register) : cbs.register[k] = "on_control_mode_change"

\* C13: on every callback-triggering write of a value in {2,3,4} to
\* CONTROL_MODE, whether write enable is 0 or 1, after the handling the most
\* recent valve duty submitted to the writer is 10000 for every proportional
\* valve, and the control loop runs iff write enable is 1.
C13_AutoModeForcesPv ==
    ModeCallbackRegistered =>
        \A m \in AutoModes :
            \A s \in {AfterHmiRegister(CONTROL_MODE, m, TRUE)} :
                /\ \A n \in PVs : s.submitted[PvKey(n)] = 10000
                /\ s.ac.is_running <=> coils[COIL_WRITE_ENABLE] = 1

\* with write enable 1 the valve is forced and the loop is started
C13_AutoModeForcesPvWhenEnabled ==
    ModeCallbackRegistered /\ coils[COIL_WRITE_ENABLE] = 1 =>
        \A m \in AutoModes :
            \A s \in {AfterHmiRegister(CONTROL_MODE, m, TRUE)} :
                /\ \A n \in PVs : s.submitted[PvKey(n)] = 10000
                /\ s.ac.is_running


\* a coil job for output i with value v has been put on the writer's queue
IoJobSubmitted(s, i, v) ==
    \E k \in Submits(s) : s.calls[k].name = <<"output", i>> /\ s.calls[k].value = v

\* C30: with write enable 1, a write of v to the IO-output write coil 266 + i
\* of a configured output i, by the HMI slave or by batch_write_io_outputs,
\* submits a coil write job for output i with value v to the writer
C30_IoOutputWriteSubmitsJob ==
    coils[COIL_WRITE_ENABLE] = 1 =>
        \A i \in 0..(NOutputs - 1), v \in {0, 1} :
            /\ IoJobSubmitted(AfterHmiCoil(COIL_IO_OUTPUT_WRITE_START + i, v, TRUE), i, v)
            /\ IoJobSubmitted(call(StateWith(TRUE), "batch_write_io_outputs",
                                   <<v, FALSE, FALSE>>).st, i, v)

\* the write reaches write_io_output, which asks the writer's parameter
\* manager for the output and gives up when it is not found
C30_IoOutputWriteReachesHandler ==
    coils[COIL_WRITE_ENABLE] = 1 =>
        \A i \in 0..(NOutputs - 1), v \in {0, 1} :
            \A s \in {AfterHmiCoil(COIL_IO_OUTPUT_WRITE_START + i, v, TRUE)} :
                /\ \E k \in 1..Len(s.fired) :
                      s.fired[k] = <<"hmi_write_trigger", "coil",
                                     COIL_IO_OUTPUT_WRITE_START + i, v>>
                /\ s.calls = <<>>

-----------------------------------------------------------------------------
(* Specification SpecWriter: ComponentOperationTaskManager on its own, with  *)
(* callers of operate_component, a worker that runs execute_write and the    *)
(* transports going up and down.                                             *)

\* configurations: pump duty range (raw), "<field>_decimals", the fallback
\* "rw_d_duty_decimals" and the components configured with "enabled": false
WriterConfigs ==
    { [min |-> NoValue, max |-> NoValue, dec |-> 0, fbdec |-> 0, disabled |-> {}],
      [min |-> 10, max |-> 100, dec |-> 0, fbdec |-> 0, disabled |-> {<<"fan", 0>>}],
      [min |-> 10, max |-> 100, dec |-> 0, fbdec |-> 2, disabled |-> {}],
      [min |-> 10, max |-> 100, dec |-> 3, fbdec |-> 0, disabled |-> {}] }

\* the values callers pass for a field
OperateValues == {0, 70000}

\* the names callers pass: the loaded components and one that is not loaded
OperateNames == ParamNames \cup {<<"output", 0>>}

\* the components operated in the runs of SpecWriter
WriterNames == {<<"pump", 0>>, <<"fan", 0>>, <<"output", 0>>}

InitWriterSpec ==
    /\ coils = [c \in CtlCoils |-> 0]
    /\ regs = InitRegs
    /\ w = InitWriter
    /\ ac = InitAc
    /\ pids = [flow |-> InitPid, temp |-> InitPid, pressure |-> InitPid]
    /\ we_last = NoValue
    /\ fanTimer = [state |-> "none", age |-> 0]
    /\ conn \in [tcp : BOOLEAN, rtu : BOOLEAN]
    /\ cbs = [coil |-> <<"hmi_write_trigger">>, register |-> <<"hmi_write_trigger">>]
    /\ cfg \in WriterConfigs
    /\ queue = <<>>
    /\ calls = <<>>
    /\ fired = <<>>
    /\ submitted = [k \in WriteKeys |-> NoValue]
    /\ poll = InitPoll
    /\ tq = InitQueue
    /\ sup = InitSup
    /\ lf = InitLf
    /\ UnitsInit

\* the program state of SpecWriter, where the task queue is kept
WriterState == [State EXCEPT !.queue = queue]

WriterFrame ==
    /\ UNCHANGED <<coils, regs, ac, pids, we_last, fanTimer, cbs, cfg, fired, poll, tq, sup, lf>>
    /\ UnitsFrame

AfterOperate(name, field, value, slave) ==
    call(WriterState, "operate_component", <<name, field, value, slave>>)

\* a caller's operate_component(name, {field: value}, slave)
Operate(name, field, value, slave) ==
    /\ Len(queue) < MaxQueue
    /\ \E s \in {AfterOperate(name, field, value, slave)} :
          /\ w' = s.w
          /\ queue' = s.queue
          /\ calls' = <<>>
          /\ submitted' = s.submitted
    /\ conn' = conn
    /\ WriterFrame

\* a worker takes the first job and runs execute_write; when the write fails
\* the manager of the current mode is marked disconnected and the mode is
\* refreshed
ExecuteWrite(ok) ==
    /\ queue # <<>>
    /\ queue' = Tail(queue)
    /\ LET wr == writer_update_mode(w, conn)
           lost == IF wr.current_mode = "tcp" THEN [conn EXCEPT !.tcp = FALSE]
                   ELSE [conn EXCEPT !.rtu = FALSE]
       IN IF ok \/ wr.current_mode = "none"
          THEN w' = wr /\ conn' = conn
          ELSE w' = writer_update_mode(wr, lost) /\ conn' = lost
    /\ calls' = <<>>
    /\ submitted' = submitted
    /\ WriterFrame

\* a transport connects or loses its connection
TransportChange(t) ==
    /\ conn' = [conn EXCEPT ![t] = ~@]
    /\ calls' = <<>>
    /\ UNCHANGED <<w, queue, submitted>>
    /\ WriterFrame

NextWriter ==
    \/ \E name \in WriterNames, field \in {DutyField, SwitchField},
          value \in OperateValues, slave \in 1..MaxSlave :
            Operate(name, field, value, slave)
    \/ \E ok \in BOOLEAN : ExecuteWrite(ok)
    \/ \E t \in {"tcp", "rtu"} : TransportChange(t)

SpecWriter == InitWriterSpec /\ [][NextWriter]_vars

-----------------------------------------------------------------------------
(* Properties of SpecWriter *)

\* the values of the calls that the properties apply to a reachable state
ClaimValues == {0, 50, 150, 70000}

\* the job a call has put on the task queue
Enqueued(s) == s.queue[Len(s.queue)]

\* the call has put a job on the task queue
HasEnqueued(s) == Len(s.queue) = Len(queue) + 1

\* the writable field a call is made for
MetaOf(name, field) == writable_fields(name, cfg)[pick_first_writable(name, cfg, field)]

\* the field is a duty register with a range configured, min <= max
RangedDuty(meta) ==
    /\ meta.wtype = "register" /\ meta.field = DutyField
    /\ meta.min # NoValue /\ meta.max # NoValue /\ meta.min <= meta.max

\* min*10^decimals <= v <= max*10^decimals and v is a U16
InRangeU16(meta, v) ==
    /\ meta.min * duty_scale(meta, cfg) <= v
    /\ v <= meta.max * duty_scale(meta, cfg)
    /\ v \in 0..65535

Result(s) == s.calls[Len(s.calls)].result

\* the call has enqueued nothing and has left the de-dup cache as it was
Rejected(s) == s.queue = queue /\ s.w.last_write_values = w.last_write_values

\* C15: when no transport is connected at the mode refresh, operate_component
\* returns the offline rejection, enqueues no job and leaves the de-dup cache
\* unchanged; the same holds, with their own results, for a component that is
\* not loaded or is disabled and for a field that is not writable.
C15_RejectionsEnqueueNothing ==
    \A name \in OperateNames, field \in {DutyField, SwitchField}, value \in ClaimValues,
       slave \in 1..MaxSlave :
        \A s \in {AfterOperate(name, field, value, slave)} :
            /\ ~conn.tcp /\ ~conn.rtu =>
                  Result(s) = "offline" /\ Rejected(s) /\ s.w.current_mode = "none"
            /\ (conn.tcp \/ conn.rtu) /\ (name \notin ParamNames \/ name \in cfg.disabled) =>
                  Result(s) = "notfound" /\ Rejected(s)
            /\ (/\ conn.tcp \/ conn.rtu
                /\ name \in ParamNames \ cfg.disabled
                /\ \A k \in 1..Len(writable_fields(name, cfg)) :
                      writable_fields(name, cfg)[k].field # field) =>
                  Result(s) = "nofield" /\ Rejected(s)

\* with jobs waiting and a value in the de-dup cache, a call with another
\* value is rejected offline, and one for a disabled component is rejected
\* while a transport is connected
C15_Witness ==
    /\ queue # <<>>
    /\ \E name \in Pumps, value \in ClaimValues :
          /\ PumpKey(name) \in DOMAIN w.last_write_values
          /\ w.last_write_values[PumpKey(name)] # compute_write_value(MetaOf(name, DutyField),
                                                                      cfg, value)
          /\ ~conn.tcp /\ ~conn.rtu
          /\ w.current_mode # "none"
          /\ \A s \in {AfterOperate(name, DutyField, value, 1)} :
                Result(s) = "offline" /\ Rejected(s)
    /\ cfg.disabled # {}

\* the jobs of the task queue for the address of the call made in s
QueuedFor(s) ==
    {i \in 1..Len(queue) :
        <<queue[i].write_type, queue[i].address>> = s.calls[Len(s.calls)].key}

\* C37: when operate_component returns the skip result for a value at an
\* address, the write job that carried this value has been written: no job
\* for that address is still waiting on the task queue
C37_SkipOnlyAfterWrite ==
    \A name \in WriterNames, field \in {DutyField, SwitchField}, value \in OperateValues :
        \A s \in {AfterOperate(name, field, value, 1)} :
            Result(s) = "skip" => QueuedFor(s) = {}

\* the record of the last operate_component call of s
LastCall(s) == s.calls[Len(s.calls)]

\* the call has computed a write value: it was not rejected
Computed(r) == r.result \in {"submitted", "skip"}

\* a second operate_component call made right after the call that left s1,
\* the transports being c2 when it refreshes the mode
SecondCall(s1, c2, name, field, value, slave) ==
    call([s1 EXCEPT !.conn = c2], "operate_component", <<name, field, value, slave>>)

\* the values of two consecutive calls: the same value twice, two values
\* above a range, and two values a range keeps apart
CallPairs == {<<v, v>> : v \in ClaimValues} \cup {<<150, 70000>>, <<0, 50>>}

\* C6: two consecutive operate_component calls that compute the same write
\* value for the same (kind, address, slave), with no mode change in between,
\* make at most one write: the second call returns the skip result and
\* enqueues no job.
C6_SecondCallSkipped ==
    \A name \in WriterNames, field \in {DutyField, SwitchField}, slave \in 1..MaxSlave :
        \A p \in CallPairs :
            \A s1 \in {AfterOperate(name, field, p[1], slave)} :
                \A s2 \in {SecondCall(s1, conn, name, field, p[2], slave)} :
                    (/\ Computed(LastCall(s1)) /\ Computed(LastCall(s2))
                     /\ LastCall(s1).key = LastCall(s2).key
                     /\ LastCall(s1).value = LastCall(s2).value
                     /\ LastCall(s1).mode = LastCall(s2).mode) =>
                        /\ LastCall(s2).result = "skip"
                        /\ s2.queue = s1.queue
                        /\ Len(s1.queue) <= Len(queue) + 1

\* after a write of the lowest duty, a first call with a duty above the range
\* is submitted as the highest duty, and a second call with another value
\* that the range clamps to the same duty is skipped
C6_Witness ==
    /\ cfg.max = 100 /\ cfg.dec = 0 /\ cfg.fbdec = 0
    /\ submitted[PumpKey(<<"pump", 0>>)] = 10
    /\ \A s1 \in {AfterOperate(<<"pump", 0>>, DutyField, 150, 1)} :
          /\ LastCall(s1).result = "submitted" /\ LastCall(s1).value = 100
          /\ Len(s1.queue) = Len(queue) + 1
          /\ \A s2 \in {SecondCall(s1, conn, <<"pump", 0>>, DutyField, 70000, 1)} :
                LastCall(s2).result = "skip" /\ s2.queue = s1.queue

\* C7: the de-dup does not suppress a write after a change of transport mode
\* or of slave: when the mode has changed since the last submitted write to
\* (kind, address), or the call names another slave, an operate_component call
\* with the same computed write value is not skipped and enqueues a job.
C7_ChangeDefeatsDedup ==
    \A name \in WriterNames, field \in {DutyField, SwitchField}, v \in ClaimValues :
        \A slave \in 1..MaxSlave, slave2 \in 1..MaxSlave, c2 \in [tcp : BOOLEAN, rtu : BOOLEAN] :
            \A s1 \in {AfterOperate(name, field, v, slave)} :
                \A s2 \in {SecondCall(s1, c2, name, field, v, slave2)} :
                    (/\ LastCall(s1).result = "submitted" /\ Computed(LastCall(s2))
                     /\ (LastCall(s2).mode # LastCall(s1).mode \/ slave2 # slave)) =>
                        /\ LastCall(s2).result = "submitted"
                        /\ Len(s2.queue) = Len(s1.queue) + 1

\* what the code does: the de-dup key is (kind, address), so the call with
\* the same value is skipped whatever the mode and the slave
C7_SkippedDespiteChange ==
    \A name \in WriterNames, field \in {DutyField, SwitchField}, v \in ClaimValues :
        \A slave \in 1..MaxSlave, slave2 \in 1..MaxSlave, c2 \in [tcp : BOOLEAN, rtu : BOOLEAN] :
            \A s1 \in {AfterOperate(name, field, v, slave)} :
                \A s2 \in {SecondCall(s1, c2, name, field, v, slave2)} :
                    (Computed(LastCall(s1)) /\ Computed(LastCall(s2))) =>
                        LastCall(s2).result = "skip" /\ s2.queue = s1.queue

-----------------------------------------------------------------------------
(* Specification SpecQueue: TaskQueueManager (task_queue.py), a              *)
(* queue.PriorityQueue of TaskItem ordered by TaskItem.__lt__.               *)

MaxHeap == 4       \* items waiting in the PriorityQueue
MaxTasks == 5      \* put_task calls in a run (_task_counter)
MaxClock == 1      \* readings of time.time() that differ from the first

\* the part of the program that the queue, the supervisor and the
\* heartbeat do not touch
ControlInit ==
    /\ coils = [c \in CtlCoils |-> 0]
    /\ regs = InitRegs
    /\ w = InitWriter
    /\ ac = InitAc
    /\ pids = [flow |-> InitPid, temp |-> InitPid, pressure |-> InitPid]
    /\ we_last = NoValue
    /\ fanTimer = [state |-> "none", age |-> 0]
    /\ conn = [tcp |-> TRUE, rtu |-> FALSE]
    /\ cbs = [coil |-> <<"hmi_write_trigger">>, register |-> <<"hmi_write_trigger">>]
    /\ cfg = [min |-> NoValue, max |-> NoValue, dec |-> 0, fbdec |-> 0, disabled |-> {}]
    /\ queue = <<>>
    /\ calls = <<>>
    /\ fired = <<>>
    /\ submitted = [k \in WriteKeys |-> NoValue]
    /\ UnitsInit

\* the control part stays as it is
BaseFrame ==
    UNCHANGED <<coils, regs, w, ac, pids, we_last, fanTimer, conn, cbs, cfg, queue, calls,
                fired, submitted>>

\* the control part and the schedulers stay as they are
CoreFrame == BaseFrame /\ UNCHANGED <<poll, tq, sup, lf>>

ControlFrame == BaseFrame /\ UnitsFrame

\* TaskItem.__lt__: (priority, timestamp) < (priority, timestamp)
TaskItem_lt(a, b) ==
    a.priority < b.priority \/ (a.priority = b.priority /\ a.timestamp < b.timestamp)

RECURSIVE siftdown(_, _, _, _)
\* heapq._siftdown(heap, startpos, pos), positions counted from 1
siftdown(heap, startpos, pos, newitem) ==
    IF pos > startpos /\ TaskItem_lt(newitem, heap[pos \div 2])
    THEN siftdown([heap EXCEPT ![pos] = heap[pos \div 2]], startpos, pos \div 2, newitem)
    ELSE [heap EXCEPT ![pos] = newitem]

RECURSIVE siftup(_, _, _)
\* heapq._siftup(heap, pos), positions counted from 1: the smaller child is
\* moved up until a leaf is reached, then the item is sifted down from there
siftup(heap, pos, newitem) ==
    LET childpos == 2 * pos
        rightpos == childpos + 1
        child == IF rightpos <= Len(heap) /\ ~TaskItem_lt(heap[childpos], heap[rightpos])
                 THEN rightpos ELSE childpos
    IN IF childpos <= Len(heap)
       THEN siftup([heap EXCEPT ![pos] = heap[child]], child, newitem)
       ELSE siftdown([heap EXCEPT ![pos] = newitem], 1, pos, newitem)

\* PriorityQueue.put: heappush
heappush(heap, item) == siftdown(Append(heap, item), 1, Len(heap) + 1, item)

\* PriorityQueue.get: heappop, the heap that is left
heappop(heap) ==
    IF Len(heap) = 1 THEN <<>>
    ELSE siftup(SubSeq(heap, 1, Len(heap) - 1), 1, heap[Len(heap)])

RECURSIVE drain(_)
\* "while not self.queue.empty(): item = self.queue.get_nowait()": the items
\* in the order they leave the queue
drain(heap) == IF heap = <<>> THEN <<>> ELSE <<heap[1]>> \o drain(heappop(heap))

RECURSIVE refill(_, _, _)
\* "for item in items: self.queue.put(item)" for the items not named task_name
refill(heap, items, task_name) ==
    IF items = <<>> THEN heap
    ELSE refill(IF items[1].name = task_name THEN heap ELSE heappush(heap, items[1]),
                Tail(items), task_name)

TaskNames == {"RTUHeartbeat", "PollCoils"}
TaskPriorities == {0, 5}

QueueFrame == ControlFrame /\ UNCHANGED <<poll, sup, lf>>

\* TaskQueueManager.put_task(func, args, kwargs, priority)
put_task(q, name, priority) ==
    [q EXCEPT !.task_counter = @ + 1,
              !.heap = heappush(@, [priority |-> priority, timestamp |-> q.now,
                                    task_id |-> q.task_counter + 1, name |-> name])]

PutTask(name, priority) ==
    /\ Len(tq.heap) < MaxHeap
    /\ tq.task_counter < MaxTasks
    /\ tq' = put_task(tq, name, priority)
    /\ QueueFrame

\* TaskQueueManager.get_task by a worker
GetTask ==
    /\ tq.heap # <<>>
    /\ tq' = [tq EXCEPT !.heap = heappop(@)]
    /\ QueueFrame

\* TaskQueueManager.remove_tasks_by_name(task_name)
RemoveTasksByName(task_name) ==
    /\ tq' = [tq EXCEPT !.heap = refill(<<>>, drain(@), task_name)]
    /\ QueueFrame

\* time.time() returns a later value
ClockAdvance ==
    /\ tq.now < MaxClock
    /\ tq' = [tq EXCEPT !.now = @ + 1]
    /\ QueueFrame

InitQueueSpec == ControlInit /\ poll = InitPoll /\ tq = InitQueue /\ sup = InitSup /\ lf = InitLf

NextQueue ==
    \/ \E name \in TaskNames, priority \in TaskPriorities : PutTask(name, priority)
    \/ GetTask
    \/ \E task_name \in TaskNames : RemoveTasksByName(task_name)
    \/ ClockAdvance

SpecQueue == InitQueueSpec /\ [][NextQueue]_vars

(* Properties of SpecQueue *)

\* a is dequeued before b: smaller priority value, then enqueue order
Before(a, b) ==
    a.priority < b.priority \/ (a.priority = b.priority /\ a.task_id < b.task_id)

\* C17: the item that get_task returns next is the one with the smallest
\* priority value and, among those, the one enqueued first, whatever
\* put_task, get_task and remove_tasks_by_name calls came before, items
\* enqueued within one clock reading included.
C17_PriorityThenFifo ==
    \A k \in 2..Len(tq.heap) : Before(tq.heap[1], tq.heap[k])

\* the same for items whose clock readings all differ
C17_FifoWhenClockDiffers ==
    (\A j, k \in 1..Len(tq.heap) : j # k => tq.heap[j].timestamp # tq.heap[k].timestamp)
        => \A k \in 2..Len(tq.heap) : Before(tq.heap[1], tq.heap[k])

-----------------------------------------------------------------------------
(* Specification SpecPoll: MappingPollingTaskManager (mapping_polling_task.py)*)
(* with the two connection managers, its workers and the reconnect attempts. *)

PollTasks == 2     \* communication tasks loaded from the configuration

\* ModbusTCPConnectionManager.is_connected / ModbusRTUConnectionManager.is_connected
tcp_is_connected(p) == p.tcp.connected /\ p.tcp.client = "open"
rtu_is_connected(p) == p.rtu.connected /\ p.rtu.client # "none"

\* "if self.tcp_manager.client: client.close(); connected = False"
force_close_tcp(p) ==
    IF p.tcp.client # "none"
    THEN [p EXCEPT !.tcp = [connected |-> FALSE, client |-> "closed"]]
    ELSE p

\* MappingPollingTaskManager.update_mode without the pause() of its last branch
polling_update_mode_no_pause(p) ==
    IF tcp_is_connected(p) THEN [p EXCEPT !.mode = "tcp", !.paused = FALSE]
    ELSE IF rtu_is_connected(p)
    THEN [(IF p.mode = "tcp" THEN force_close_tcp(p) ELSE p)
             EXCEPT !.mode = "rtu", !.paused = FALSE]
    ELSE [(IF p.mode = "tcp" THEN force_close_tcp(p) ELSE p) EXCEPT !.mode = "none"]

\* MappingPollingTaskManager.update_mode
polling_update_mode(p) ==
    IF tcp_is_connected(p) THEN [p EXCEPT !.mode = "tcp", !.paused = FALSE]
    ELSE IF rtu_is_connected(p)
    THEN [(IF p.mode = "tcp" THEN force_close_tcp(p) ELSE p)
             EXCEPT !.mode = "rtu", !.paused = FALSE]
    ELSE [(IF p.mode = "tcp" THEN force_close_tcp(p) ELSE p)
             EXCEPT !.mode = "none", !.paused = TRUE]

\* ModbusConnectionManagerBase.disconnect (TCP): nothing without a client
tcp_disconnect(p) ==
    IF p.tcp.client # "none"
    THEN [p EXCEPT !.tcp = [connected |-> FALSE, client |-> "none"]]
    ELSE p

\* ModbusRTUConnectionManager.disconnect
rtu_disconnect(p) == [p EXCEPT !.rtu = [connected |-> FALSE, client |-> "none"]]

\* start_tcpconnect / start_rtuconnect
start_tcpconnect(p) ==
    IF p.tcp.connected THEN p
    ELSE IF p.link.tcp THEN [p EXCEPT !.tcp = [connected |-> TRUE, client |-> "open"]]
    ELSE [p EXCEPT !.tcp = [connected |-> FALSE, client |-> "none"]]

start_rtuconnect(p) ==
    IF p.rtu.connected THEN p
    ELSE IF p.link.rtu THEN [p EXCEPT !.rtu = [connected |-> TRUE, client |-> "open"]]
    ELSE [p EXCEPT !.rtu = [connected |-> FALSE, client |-> "none"]]

\* execute_task of a worker: update_mode, wait_if_paused, then a read with the
\* reader of the current mode; a failed read marks the manager disconnected
\* (closing the TCP client) and refreshes the mode
polling_execute_task(p0) ==
    LET p == polling_update_mode(p0)
        ok == IF p.mode = "tcp" THEN tcp_is_connected(p) /\ p.link.tcp
              ELSE rtu_is_connected(p) /\ p.link.rtu
        failed == IF p.mode = "tcp"
                  THEN force_close_tcp([p EXCEPT !.tcp.connected = FALSE])
                  ELSE [p EXCEPT !.rtu.connected = FALSE]
    IN IF p.paused THEN p
       ELSE IF ok THEN [p EXCEPT !.held = @ - 1]
       ELSE polling_update_mode(failed)

PollFrame == ControlFrame /\ UNCHANGED <<tq, sup, lf>>

\* the mode watchdog, on_pause_check or the RTU reconnect callback
UpdateMode == poll' = polling_update_mode(poll) /\ PollFrame

\* a worker takes a communication task from the queue (BasePollingTaskManager.start)
TakeTask ==
    /\ poll.held < PollTasks
    /\ poll' = [poll EXCEPT !.held = @ + 1]
    /\ PollFrame

\* a worker runs execute_task for the task it holds: a task that was read is
\* put back on the queue, one that failed is tried again by the worker
ExecuteTask ==
    /\ poll.held > 0
    /\ poll' = polling_execute_task(poll)
    /\ PollFrame

\* TcpAutoReconnectManager._attempt_reconnect; the callback of a successful
\* attempt is mapping_task_manager.resume
TcpAttempt ==
    /\ ~tcp_is_connected(poll)
    /\ \E p \in {start_tcpconnect(tcp_disconnect(poll))} :
          poll' = IF p.tcp.connected THEN [p EXCEPT !.paused = FALSE] ELSE p
    /\ PollFrame

\* RtuAutoReconnectManager._attempt_reconnect; the callback of a successful
\* attempt starts with mapping_task_manager.update_mode()
RtuAttempt ==
    /\ ~rtu_is_connected(poll)
    /\ \E p \in {start_rtuconnect(rtu_disconnect(poll))} :
          poll' = IF p.rtu.connected THEN polling_update_mode(p) ELSE p
    /\ PollFrame

\* the PCBA starts or stops answering on a medium; an open TCP socket is
\* closed by the peer when the medium goes down
LinkChange(t) ==
    /\ poll' = IF t = "tcp" /\ poll.link.tcp /\ poll.tcp.client = "open"
               THEN [poll EXCEPT !.link.tcp = FALSE, !.tcp.client = "closed"]
               ELSE [poll EXCEPT !.link[t] = ~@]
    /\ PollFrame

InitPollSpec == ControlInit /\ poll = InitPoll /\ tq = InitQueue /\ sup = InitSup /\ lf = InitLf

NextPoll ==
    \/ UpdateMode
    \/ TakeTask
    \/ ExecuteTask
    \/ TcpAttempt
    \/ RtuAttempt
    \/ \E t \in {"tcp", "rtu"} : LinkChange(t)

SpecPoll == InitPollSpec /\ [][NextPoll]_vars

(* Properties of SpecPoll *)

\* tcp if TCP is connected, else rtu if RTU is connected, else none
ModeFor(p) ==
    IF tcp_is_connected(p) THEN "tcp" ELSE IF rtu_is_connected(p) THEN "rtu" ELSE "none"

\* C16: every completed update_mode() leaves current_mode = tcp if TCP was
\* connected when evaluated, else rtu if RTU was connected, else none, and
\* leaves the scheduler paused iff the resulting mode is none; and
\* current_mode changes in no step but one that ends with update_mode.
C16_UpdateModeSetsMode ==
    /\ [](\A p \in {polling_update_mode(poll)} :
              p.mode = ModeFor(poll) /\ (p.paused <=> p.mode = "none"))
    /\ [][poll.mode' # poll.mode =>
              \E q \in {[poll' EXCEPT !.mode = poll.mode], poll'} :
                  poll' = polling_update_mode(q)]_vars

\* update_mode has switched from tcp to rtu and has closed the TCP client
C16_Witness ==
    /\ poll.mode = "rtu" /\ ~poll.paused
    /\ poll.tcp.client = "closed" /\ ~poll.tcp.connected
    /\ poll.link.tcp

(* The reconnect supervisor of the RTU medium (auto_reconnect.py) with the
   worker threads that call trigger_reconnect: the heartbeat worker of
   LowFrequencyTaskManager and a polling worker. No method of the supervisor
   takes a lock, so trigger_reconnect is two steps (the test of line 83, then
   the assignments), and _attempt_reconnect is two steps around the blocking
   connect. sup.timers counts the threading.Timer objects not yet fired,
   sup.timer_pending says whether self.reconnect_timer is one of them,
   sup.running counts the executions of _attempt_reconnect in progress and
   sup.submitted the callbacks waiting in the thread pool. *)

MaxChains == 2       \* timers and attempts in flight
MaxAttempts == 2     \* reconnect_attempts is counted up to here
MaxSubmitted == 1    \* callbacks waiting in the pool
MaxBeats == 2        \* heartbeat tasks in the low-frequency queue

Workers == {"heartbeat", "polling"}

\* trigger_reconnect, line 83: the test that lets the caller go on
trigger_passes(s) == s.active /\ ~s.stop_requested /\ ~s.is_reconnecting

\* _start_reconnect_timer
start_reconnect_timer(s) == [s EXCEPT !.timers = @ + 1, !.timer_pending = TRUE]

\* trigger_reconnect, lines 85-90
trigger_set(s) == start_reconnect_timer([s EXCEPT !.is_reconnecting = TRUE])

\* BaseAutoReconnectManager.start
sup_start(s, p) ==
    IF s.active THEN s
    ELSE LET s1 == [s EXCEPT !.active = TRUE, !.stop_requested = FALSE,
                             !.reconnect_attempts = 0, !.is_reconnecting = FALSE]
         IN IF ~rtu_is_connected(p)
            THEN start_reconnect_timer([s1 EXCEPT !.is_reconnecting = TRUE])
            ELSE s1

\* BaseAutoReconnectManager.stop: cancel() reaches the last timer only, and
\* only while it has not fired
sup_stop(s) ==
    IF ~s.active THEN s
    ELSE [s EXCEPT !.active = FALSE, !.stop_requested = TRUE, !.is_reconnecting = FALSE,
                   !.reconnect_attempts = 0,
                   !.timers = IF s.timer_pending THEN @ - 1 ELSE @,
                   !.timer_pending = FALSE]

\* _attempt_reconnect, lines 199-204: the abort test and the attempt counter
attempt_begin(s) ==
    IF ~s.active \/ s.stop_requested THEN [s EXCEPT !.is_reconnecting = FALSE]
    ELSE [s EXCEPT !.reconnect_attempts = Min(@ + 1, MaxAttempts), !.running = @ + 1]

\* _attempt_reconnect after a failed connect, without the next timer
attempt_end_no_reschedule(s, success) ==
    IF success
    THEN [s EXCEPT !.reconnect_attempts = 0, !.is_reconnecting = FALSE,
                   !.submitted = @ + 1, !.running = @ - 1]
    ELSE IF s.active /\ ~s.stop_requested
    THEN [s EXCEPT !.running = @ - 1]
    ELSE [s EXCEPT !.is_reconnecting = FALSE, !.running = @ - 1]

\* _attempt_reconnect, lines 209-228: the outcome of start_rtuconnect
attempt_end(s, success) ==
    IF success
    THEN [s EXCEPT !.reconnect_attempts = 0, !.is_reconnecting = FALSE,
                   !.submitted = @ + 1, !.running = @ - 1]
    ELSE IF s.active /\ ~s.stop_requested
    THEN start_reconnect_timer([s EXCEPT !.running = @ - 1])
    ELSE [s EXCEPT !.is_reconnecting = FALSE, !.running = @ - 1]

\* LowFrequencyTaskManager.on_rtu_reconnected
on_rtu_reconnected(l) ==
    IF ~l.rtu_heartbeat_enabled
    THEN [l EXCEPT !.rtu_heartbeat_enabled = TRUE, !.queued = @ + 1]
    ELSE l

\* _force_read_rtu, lines 150-152
heartbeat_disable(l) ==
    IF l.rtu_heartbeat_enabled
    THEN [l EXCEPT !.rtu_heartbeat_enabled = FALSE, !.queued = 0]
    ELSE l

\* execute_task, lines 98-107: a continuous task is put back
heartbeat_requeue(l) ==
    IF l.rtu_heartbeat_enabled THEN [l EXCEPT !.queued = @ + 1] ELSE l

\* a read through the RTU manager answers
rtu_read_ok(p) == rtu_is_connected(p) /\ p.link.rtu

\* "manager.connected = False; if reconnect_mgr.is_active(): trigger_reconnect()"
\* up to the test of trigger_reconnect
after_read_failure(s, wk) ==
    [s EXCEPT !.pc[wk] = IF trigger_passes(s) THEN "checked" ELSE "triggered"]

ReconnectFrame == ControlFrame /\ UNCHANGED tq

Chains(s) == s.timers + s.running

\* AppController.start: the supervisor starts
Start ==
    /\ ~sup.active
    /\ Chains(sup) < MaxChains
    /\ sup' = sup_start(sup, poll)
    /\ UNCHANGED <<poll, lf>> /\ ReconnectFrame

\* AppController.stop
Stop ==
    /\ sup.active
    /\ sup' = sup_stop(sup)
    /\ UNCHANGED <<poll, lf>> /\ ReconnectFrame

\* the heartbeat worker takes the heartbeat task; execute_task returns at
\* once when the heartbeat is disabled
HbTake ==
    /\ sup.pc["heartbeat"] = "idle"
    /\ lf.queued > 0
    /\ lf' = [lf EXCEPT !.queued = @ - 1]
    /\ sup' = IF lf.rtu_heartbeat_enabled THEN [sup EXCEPT !.pc["heartbeat"] = "reading"]
              ELSE sup
    /\ UNCHANGED poll /\ ReconnectFrame

\* _force_read_rtu: the read, and on failure the lines 145-149 up to the
\* test of trigger_reconnect
HbRead ==
    /\ sup.pc["heartbeat"] = "reading"
    /\ IF rtu_read_ok(poll)
       THEN sup' = [sup EXCEPT !.pc["heartbeat"] = "tail"] /\ UNCHANGED poll
       ELSE /\ poll' = [poll EXCEPT !.rtu.connected = FALSE]
            /\ sup' = after_read_failure(sup, "heartbeat")
    /\ UNCHANGED lf /\ ReconnectFrame

\* a polling worker in rtu mode whose read fails (execute_task, 262-266)
PollReadFail ==
    /\ sup.pc["polling"] = "idle"
    /\ poll.mode = "rtu" /\ ~poll.paused
    /\ ~rtu_read_ok(poll)
    /\ poll' = [poll EXCEPT !.rtu.connected = FALSE]
    /\ sup' = after_read_failure(sup, "polling")
    /\ UNCHANGED lf /\ ReconnectFrame

\* trigger_reconnect, lines 85-90, by a worker that passed the test
TriggerSet(wk) ==
    /\ sup.pc[wk] = "checked"
    /\ Chains(sup) < MaxChains
    /\ sup' = [trigger_set(sup) EXCEPT !.pc[wk] = "triggered"]
    /\ UNCHANGED <<poll, lf>> /\ ReconnectFrame

\* the polling worker after trigger_reconnect: update_mode()
PollUpdate ==
    /\ sup.pc["polling"] = "triggered"
    /\ poll' = polling_update_mode(poll)
    /\ sup' = [sup EXCEPT !.pc["polling"] = "idle"]
    /\ UNCHANGED lf /\ ReconnectFrame

\* the heartbeat worker after trigger_reconnect: lines 150-152
HbDisable ==
    /\ sup.pc["heartbeat"] = "triggered"
    /\ lf' = heartbeat_disable(lf)
    /\ sup' = [sup EXCEPT !.pc["heartbeat"] = "tail"]
    /\ UNCHANGED poll /\ ReconnectFrame

\* the end of execute_task of the heartbeat
HbTail ==
    /\ sup.pc["heartbeat"] = "tail"
    /\ lf.rtu_heartbeat_enabled => lf.queued < MaxBeats
    /\ lf' = heartbeat_requeue(lf)
    /\ sup' = [sup EXCEPT !.pc["heartbeat"] = "idle"]
    /\ UNCHANGED poll /\ ReconnectFrame

\* a timer fires and _attempt_reconnect runs up to disconnect(); last says
\* whether the timer is the one self.reconnect_timer refers to
TimerFire(last) ==
    /\ IF last THEN sup.timer_pending
       ELSE sup.timers > (IF sup.timer_pending THEN 1 ELSE 0)
    /\ \E s \in {[sup EXCEPT !.timers = @ - 1,
                             !.timer_pending = IF last THEN FALSE ELSE @]} :
          /\ sup' = attempt_begin(s)
          /\ poll' = IF s.active /\ ~s.stop_requested THEN rtu_disconnect(poll) ELSE poll
    /\ UNCHANGED lf /\ ReconnectFrame

\* start_rtuconnect returns and _attempt_reconnect finishes
AttemptEnd ==
    /\ sup.running > 0
    /\ \E p \in {start_rtuconnect(poll)} :
          /\ p.rtu.connected => sup.submitted < MaxSubmitted
          /\ poll' = p
          /\ sup' = attempt_end(sup, p.rtu.connected)
    /\ UNCHANGED lf /\ ReconnectFrame

\* the thread pool runs AppController._on_rtu_reconnected
CallbackRun ==
    /\ sup.submitted > 0
    /\ sup' = [sup EXCEPT !.submitted = @ - 1]
    /\ poll' = polling_update_mode(poll)
    /\ lf' = on_rtu_reconnected(lf)
    /\ ReconnectFrame

\* the serial line starts or stops answering
RtuLinkChange ==
    /\ poll' = [poll EXCEPT !.link.rtu = ~@]
    /\ UNCHANGED <<sup, lf>> /\ ReconnectFrame

\* AppController.__init__: the RTU manager has tried to connect and the
\* scheduler has chosen its mode; the supervisor is not started yet
InitReconnectSpec ==
    /\ ControlInit
    /\ \E up \in BOOLEAN :
          poll = polling_update_mode(start_rtuconnect([InitPoll EXCEPT !.link.rtu = up]))
    /\ tq = InitQueue /\ sup = InitSup /\ lf = InitLf

NextReconnect ==
    \/ Start
    \/ Stop
    \/ HbTake
    \/ HbRead
    \/ PollReadFail
    \/ \E wk \in Workers : TriggerSet(wk)
    \/ PollUpdate
    \/ HbDisable
    \/ HbTail
    \/ \E last \in BOOLEAN : TimerFire(last)
    \/ AttemptEnd
    \/ CallbackRun
    \/ RtuLinkChange

SpecReconnect == InitReconnectSpec /\ [][NextReconnect]_vars

\* timers fire, a blocking connect returns and the pool runs what it was given
SpecReconnectLive ==
    /\ SpecReconnect
    /\ WF_vars(\E last \in BOOLEAN : TimerFire(last))
    /\ WF_vars(AttemptEnd)
    /\ WF_vars(CallbackRun)

(* Properties of SpecReconnect *)

\* C18: at most one reconnect attempt chain exists at any time: at most one
\* timer pending or one _attempt_reconnect executing, under any interleaving
\* of trigger_reconnect calls with start, stop and a running attempt.
C18_OneChain == Chains(sup) <= 1

\* a polling worker and the heartbeat worker have both passed the test of
\* trigger_reconnect before either has set is_reconnecting
BothWorkersPassed == \A wk \in Workers : sup.pc[wk] = "checked"

\* the transport answers, the supervisor is active and the attempt succeeded
Reconnected(s, p) ==
    rtu_is_connected(p) /\ s.reconnect_attempts = 0 /\ ~s.is_reconnecting

\* C19 (safety): while the supervisor is active and is_reconnecting is true, a
\* reconnect attempt is pending or running; and an attempt that succeeds
\* leaves connected true, attempts = 0, is_reconnecting false and submits the
\* callback exactly once.
C19_AttemptPendingOrRunning ==
    /\ sup.active /\ sup.is_reconnecting => Chains(sup) >= 1
    /\ sup.running > 0 =>
          \A p \in {start_rtuconnect(poll)} :
             \A s \in {attempt_end(sup, p.rtu.connected)} :
                /\ p.rtu.connected =>
                      Reconnected(s, p) /\ s.submitted = sup.submitted + 1
                /\ ~p.rtu.connected => s.submitted = sup.submitted

Settled ==
    /\ sup.active /\ ~sup.is_reconnecting /\ Chains(sup) = 0 /\ sup.submitted = 0
    /\ \A wk \in Workers : sup.pc[wk] = "idle"
    /\ rtu_is_connected(poll)

\* the RTUHeartbeat task instances in the low-frequency queue and in the
\* hands of its worker
HeartbeatInstances(l, s) == l.queued + (IF s.pc["heartbeat"] # "idle" THEN 1 ELSE 0)

\* C39: at any time at most one RTUHeartbeat task instance exists across the
\* low-frequency queue and its worker.
C39_OneHeartbeatInstance == HeartbeatInstances(lf, sup) <= 1

\* C20: after a heartbeat failure, once the RTU supervisor has reconnected
\* successfully and its callback has run, rtu_heartbeat_enabled is true and a
\* heartbeat task is queued again, under every interleaving of the failing
\* heartbeat worker and the reconnect callback.
C20_HeartbeatRestored == Settled => lf.rtu_heartbeat_enabled /\ lf.queued > 0

(* ModbusBatchWriter and ModbusBatchReader (batch_writer.py, batch_reader.py):
   each operation asks the manager for its client and then tries up to
   max_retry times. What the client does at each attempt is an input: it
   answers ("ok"), answers with a Modbus error response ("error", for which
   result.isError() is true) or raises ("exception"). *)

MaxRetry == 3        \* max_retry of the polling readers

Outcomes == {"ok", "error", "exception"}

BatchOps == {"write_registers", "write_coils", "read_holding_registers", "read_coils"}

IsRead(op) == op \in {"read_holding_registers", "read_coils"}

\* max_retry is a constructor parameter (default 3): one attempt, or the default
RetryCounts == {1, MaxRetry}

RECURSIVE batch_loop(_, _, _)
\* "for attempt in range(self.max_retry)": an error response goes on to the
\* next attempt and leaves last_error as it is; an exception sets last_error
batch_loop(outcomes, attempt, last_error) ==
    IF attempt > Len(outcomes) THEN [values |-> "None", err |-> last_error]
    ELSE IF outcomes[attempt] = "exception"
    THEN batch_loop(outcomes, attempt + 1, "Error")
    ELSE IF outcomes[attempt] = "error"
    THEN batch_loop(outcomes, attempt + 1, last_error)
    ELSE [values |-> "data", err |-> "None"]

\* one operation of a reader or writer; a writer returns the error only
batch_operation(op, client, outcomes) ==
    LET r == IF ~client THEN [values |-> "None", err |-> "ConnectionError"]
             ELSE batch_loop(outcomes, 1, "None")
    IN [op |-> op, client |-> client, outcomes |-> outcomes,
        values |-> IF IsRead(op) THEN r.values ELSE "None", err |-> r.err]

\* execute_write, lines 306-315: "if err" decides between failure and success
write_succeeded(b) == b.err = "None"

\* execute_task of a polling task: "if values" decides
read_succeeded(b) == b.values # "None"

BatchFrame == CoreFrame /\ UNCHANGED <<raw, sched, mon, ph, drv>> /\ LateFrame

BatchArgs == UNION {[1..n -> Outcomes] : n \in RetryCounts}

WriteRegisters(client, outcomes) ==
    bio' = batch_operation("write_registers", client, outcomes) /\ BatchFrame

WriteCoils(client, outcomes) ==
    bio' = batch_operation("write_coils", client, outcomes) /\ BatchFrame

ReadHoldingRegisters(client, outcomes) ==
    bio' = batch_operation("read_holding_registers", client, outcomes) /\ BatchFrame

ReadCoils(client, outcomes) ==
    bio' = batch_operation("read_coils", client, outcomes) /\ BatchFrame

InitBatchSpec == ControlInit /\ poll = InitPoll /\ tq = InitQueue /\ sup = InitSup /\ lf = InitLf

NextBatch ==
    \E client \in BOOLEAN, outcomes \in BatchArgs :
        \/ WriteRegisters(client, outcomes)
        \/ WriteCoils(client, outcomes)
        \/ ReadHoldingRegisters(client, outcomes)
        \/ ReadCoils(client, outcomes)

SpecBatch == InitBatchSpec /\ [][NextBatch]_vars

(* Properties of SpecBatch *)

\* no attempt of the operation succeeded
NeverSucceeded(b) ==
    ~b.client \/ \A i \in 1..Len(b.outcomes) : b.outcomes[i] # "ok"

\* C21: an operation none of whose attempts succeeded reports an error: a
\* write returns a non-empty error, a read returns no values together with a
\* non-empty error, also when every attempt gave a Modbus error response.
C21_FailureReported ==
    bio.op # "none" /\ NeverSucceeded(bio) =>
        /\ bio.err # "None"
        /\ IsRead(bio.op) => bio.values = "None"

\* what the code guarantees: a failed read returns no values, and a failure
\* with at least one exception or without a client has an error text
C21_FailureWithExceptionReported ==
    bio.op # "none" /\ NeverSucceeded(bio) =>
        /\ bio.values = "None"
        /\ (~bio.client \/ \E i \in 1..Len(bio.outcomes) : bio.outcomes[i] = "exception")
              => bio.err # "None"

(* The raw register image (RegisterMap of mapping_polling_task.py) and the
   polling task that fills it. No caller uses set_write_lock, so write_lock
   stays empty. A read is made through the reader of the current mode; the
   device can answer only while the medium is up. *)

RawValues == {0, 1}

RawAddrs == 0..(RawSize - 1)

\* CommunicationTask of the configuration: is_bit, start_address, length
PollTaskDefs ==
    {[is_bit |-> FALSE, start_address |-> 0, length |-> RawSize],
     [is_bit |-> FALSE, start_address |-> RawSize - 1, length |-> 1],
     [is_bit |-> TRUE, start_address |-> 0, length |-> 1]}

\* what the device does over the attempts of one read: the same at every
\* attempt, or an answer at the last attempt after error responses
ReadOutcomes ==
    {[i \in 1..MaxRetry |-> o] : o \in Outcomes}
        \cup {[i \in 1..MaxRetry |-> IF i = MaxRetry THEN "ok" ELSE "error"]}

\* RegisterMap.update_registers / update_coils: each address of the block
\* takes its new value
update_block(cells, start_address, values) ==
    [a \in DOMAIN cells |->
        IF a >= start_address /\ a < start_address + Len(values)
        THEN values[a - start_address + 1] ELSE cells[a]]

update_raw(m, task, values) ==
    IF task.is_bit THEN [m EXCEPT !.coils = update_block(@, task.start_address, values)]
    ELSE [m EXCEPT !.registers = update_block(@, task.start_address, values)]

\* get_client() of the manager of the current mode
polling_client(p) ==
    IF p.mode = "tcp" THEN tcp_is_connected(p) ELSE rtu_is_connected(p)

\* the reader call of execute_task
polling_reader_call(p, task, outcomes) ==
    batch_operation(IF task.is_bit THEN "read_coils" ELSE "read_holding_registers",
                    polling_client(p), outcomes)

\* what execute_task does after a failed read
polling_read_failed(p) ==
    polling_update_mode(IF p.mode = "tcp"
                        THEN force_close_tcp([p EXCEPT !.tcp.connected = FALSE])
                        ELSE [p EXCEPT !.rtu.connected = FALSE])

\* execute_task storing the block without looking at "values"
polling_read_task_unchecked(p0, m, task, outcomes, values) ==
    LET p == polling_update_mode(p0)
        b == polling_reader_call(p, task, outcomes)
    IN IF p.paused THEN [poll |-> p, raw |-> m, bio |-> InitBio]
       ELSE IF read_succeeded(b)
       THEN [poll |-> p, raw |-> update_raw(m, task, values), bio |-> b]
       ELSE [poll |-> polling_read_failed(p), raw |-> update_raw(m, task, values), bio |-> b]

\* MappingPollingTaskManager.execute_task for a read task: update_mode,
\* wait_if_paused, the read, and the update of the image "if values"
polling_read_task(p0, m, task, outcomes, values) ==
    LET p == polling_update_mode(p0)
        b == polling_reader_call(p, task, outcomes)
    IN IF p.paused THEN [poll |-> p, raw |-> m, bio |-> InitBio]
       ELSE IF read_succeeded(b)
       THEN [poll |-> p, raw |-> update_raw(m, task, values), bio |-> b]
       ELSE [poll |-> polling_read_failed(p), raw |-> m, bio |-> b]

\* the device answers only on a medium that is up
CanAnswer(p0, outcomes) ==
    LET p == polling_update_mode(p0)
    IN (\E i \in 1..Len(outcomes) : outcomes[i] = "ok") =>
          IF p.mode = "tcp" THEN p.link.tcp ELSE p.link.rtu

BlockValues(task) == [1..task.length -> RawValues]

RawFrame == BaseFrame /\ UNCHANGED <<tq, sup, lf, sched, mon, ph, drv>> /\ LateFrame

\* a worker runs execute_task for a read task
PollRead(task, outcomes, values) ==
    /\ CanAnswer(poll, outcomes)
    /\ \E r \in {polling_read_task(poll, raw, task, outcomes, values)} :
          poll' = r.poll /\ raw' = r.raw /\ bio' = r.bio
    /\ RawFrame

InitRawSpec == ControlInit /\ poll = InitPoll /\ tq = InitQueue /\ sup = InitSup /\ lf = InitLf

NextRaw ==
    \/ \E task \in PollTaskDefs, outcomes \in ReadOutcomes :
          \E values \in BlockValues(task) : PollRead(task, outcomes, values)
    \/ TcpAttempt
    \/ RtuAttempt
    \/ \E t \in {"tcp", "rtu"} : LinkChange(t)

SpecRaw == InitRawSpec /\ [][NextRaw]_vars

(* Properties of SpecRaw *)

\* C22: a polling task whose read fails (error responses, exceptions or no
\* client) leaves every coil and register of the raw image unchanged.
C22_FailedReadKeepsImage ==
    \A task \in PollTaskDefs, outcomes \in ReadOutcomes :
        \A values \in BlockValues(task) :
            CanAnswer(poll, outcomes) =>
                \A r \in {polling_read_task(poll, raw, task, outcomes, values)} :
                    (r.bio.op = "none" \/ ~read_succeeded(r.bio)) => r.raw = raw

\* the last read failed and the image still holds the values of an earlier
\* successful read
C22_Witness ==
    /\ bio.op = "read_holding_registers" /\ bio.client /\ ~read_succeeded(bio)
    /\ \A a \in RawAddrs : raw.registers[a] = 1

(* A scheduler (BasePollingTaskManager of task_queue.py) with its worker
   threads and a caller of shutdown(). sched.pc[wk] is the position of worker
   wk in the function worker() of start(): "new" (no thread yet), "loop" (the
   test of the outer while), "get" (inside get_task), "wait" (wait_if_paused
   with a task in hand), "run" (the task function), "retry" (wait_if_paused
   and sleep after a failed task) and "exited". sched.caller is the position
   of the caller in shutdown(): "idle", "event" (shutdown_event set), "drain"
   (the loop of TaskQueueManager.shutdown), "join" and "returned". *)

\* worker(): "while not self.shutdown_event.is_set()"
worker_loop(s, wk) ==
    [s EXCEPT !.pc[wk] = IF s.shutdown_event THEN "exited" ELSE "get"]

\* get_task: None once shutdown_flag is set, else the next item
worker_get(s, wk) ==
    IF s.shutdown_flag THEN [s EXCEPT !.pc[wk] = "loop"]
    ELSE [s EXCEPT !.queued = @ - 1, !.pc[wk] = "wait"]

\* after wait_if_paused: the inner "while not self.shutdown_event.is_set()";
\* when it is skipped the finally clause runs and the outer loop goes on
worker_resume(s, wk) ==
    [s EXCEPT !.pc[wk] = IF s.shutdown_event THEN "loop" ELSE "run"]

\* the task function: a continuous task that was executed puts itself back
\* unless shutdown_event is set; a task that returns False is retried
worker_run(s, wk, ok) ==
    IF ok
    THEN [s EXCEPT !.queued = IF s.shutdown_event THEN @ ELSE @ + 1, !.pc[wk] = "loop"]
    ELSE [s EXCEPT !.pc[wk] = "retry"]

SchedFrame == CoreFrame /\ UNCHANGED <<bio, raw, mon, ph, drv>> /\ LateFrame

\* BasePollingTaskManager.start
StartWorkers ==
    /\ \A wk \in 1..SchedWorkers : sched.pc[wk] = "new"
    /\ sched.caller = "idle"
    /\ sched' = [sched EXCEPT !.pc = [wk \in 1..SchedWorkers |-> "loop"]]
    /\ SchedFrame

\* pause() / resume() through update_mode
Pause == ~sched.paused /\ sched' = [sched EXCEPT !.paused = TRUE] /\ SchedFrame

Resume == sched.paused /\ sched' = [sched EXCEPT !.paused = FALSE] /\ SchedFrame

WorkerLoop(wk) ==
    /\ sched.pc[wk] = "loop"
    /\ sched' = worker_loop(sched, wk)
    /\ SchedFrame

\* queue.get(timeout) returns an item, or get_task sees the flag
WorkerGet(wk) ==
    /\ sched.pc[wk] = "get"
    /\ sched.shutdown_flag \/ sched.queued > 0
    /\ sched' = worker_get(sched, wk)
    /\ SchedFrame

\* wait_if_paused returns only while paused is false
WorkerResume(wk) ==
    /\ sched.pc[wk] \in {"wait", "retry"}
    /\ ~sched.paused
    /\ sched' = worker_resume(sched, wk)
    /\ SchedFrame

WorkerRun(wk, ok) ==
    /\ sched.pc[wk] = "run"
    /\ sched' = worker_run(sched, wk, ok)
    /\ SchedFrame

\* BasePollingTaskManager.shutdown of a started scheduler: self.shutdown_event.set()
ShutdownEvent ==
    /\ sched.caller = "idle"
    /\ \A wk \in 1..SchedWorkers : sched.pc[wk] # "new"
    /\ sched' = [sched EXCEPT !.shutdown_event = TRUE, !.caller = "event"]
    /\ SchedFrame

\* TaskQueueManager.shutdown: self.shutdown_flag.set() and notify_all
ShutdownFlag ==
    /\ sched.caller = "event"
    /\ sched' = [sched EXCEPT !.shutdown_flag = TRUE, !.caller = "drain"]
    /\ SchedFrame

\* "while not self.queue.empty(): time.sleep(0.1)" is left
ShutdownDrained ==
    /\ sched.caller = "drain"
    /\ sched.queued = 0
    /\ sched' = [sched EXCEPT !.caller = "join"]
    /\ SchedFrame

\* "for t in self.thread_pool: t.join(timeout=1)" returns, joined or not
ShutdownJoined ==
    /\ sched.caller = "join"
    /\ sched' = [sched EXCEPT !.caller = "returned"]
    /\ SchedFrame

InitShutdownSpec == ControlInit /\ poll = InitPoll /\ tq = InitQueue /\ sup = InitSup /\ lf = InitLf

CallerStep == ShutdownFlag \/ ShutdownDrained \/ ShutdownJoined

NextShutdown ==
    \/ StartWorkers
    \/ Pause
    \/ Resume
    \/ \E wk \in 1..SchedWorkers : WorkerLoop(wk)
    \/ \E wk \in 1..SchedWorkers : WorkerGet(wk)
    \/ \E wk \in 1..SchedWorkers : WorkerResume(wk)
    \/ \E wk \in 1..SchedWorkers, ok \in BOOLEAN : WorkerRun(wk, ok)
    \/ ShutdownEvent
    \/ ShutdownFlag
    \/ ShutdownDrained
    \/ ShutdownJoined

\* every thread that can take a step takes it: the workers are threads of
\* the process and the caller of shutdown() goes on
SpecShutdown ==
    /\ InitShutdownSpec /\ [][NextShutdown]_vars
    /\ \A wk \in 1..SchedWorkers :
          /\ WF_vars(WorkerLoop(wk))
          /\ WF_vars(WorkerGet(wk))
          /\ WF_vars(WorkerResume(wk))
          /\ WF_vars(\E ok \in BOOLEAN : WorkerRun(wk, ok))
    /\ WF_vars(CallerStep)

(* Properties of SpecShutdown *)

\* C23: after shutdown() is called, from any reachable state, the call
\* returns, and every worker exits.
C23_ShutdownTerminates ==
    (sched.caller # "idle") ~>
        (sched.caller = "returned" /\ \A wk \in 1..SchedWorkers : sched.pc[wk] \in {"new", "exited"})

\* what the code guarantees: no worker takes a task from the queue once
\* shutdown_flag is set, and none starts a task function once shutdown_event is set
C23_NoFurtherTask ==
    [][/\ sched.shutdown_flag => sched'.queued >= sched.queued
       /\ \A wk \in 1..SchedWorkers :
             sched.shutdown_event /\ sched.pc[wk] # "run" => sched'.pc[wk] # "run"]_vars

(* Fault confirmation (process_*_state of device_data_manipulation.py). Each
   device has one entry of _fault_time, 0 meaning unset; the entries of
   different devices have different keys, so one device is followed at a
   time: mon.dev is the device, mon.fault_time its entry, mon.status the
   status code last written, mon.now the clock (time.time(), never 0). A
   sensor reading is the calibrated value the function compares. mon.branch
   is the branch the last sample fell in, mon.prev the one before, and
   mon.since the time of the first sample of the present unbroken run of
   mon.branch. *)

TickStep == 4        \* seconds between two samples
MaxNow == 29         \* the clock stops here

FaultWindow == 8
PvFaultWindow == 12
FanCurrentLimit == 100
PumpCurrentLimit == 100
PvLowVoltage == 1990
PvDutyLimit == 2000
PvRunVoltage == 2050
TempFaultHigh == 2000
TempFaultLow == -1000
PressureFaultLow == -50
FlowFaultLow == -20
EnvExtremeLow == -100
EnvExtremeHigh == 200

\* limits of the configuration of the device that is followed
SensorCfg ==
    [min_duty |-> 10, min_temperature |-> 50, max_temperature |-> 60, decimals |-> 1,
     min_pressure |-> 0, max_pressure |-> 100, min_flow |-> 0, max_flow |-> 100,
     min_ph |-> 0, max_ph |-> 14, min_pht |-> 0, max_pht |-> 60]

Devices == {"fan", "pump", "pv", "temperature", "pressure", "flow", "ph", "environment"}

\* "if get(key, 0) == 0: set now; elif now - t >= window: state = code;
\* else: state as before"
confirm(ft, now, window, code, pending) ==
    IF ft = 0 THEN [fault_time |-> now, state |-> pending]
    ELSE IF now - ft >= window THEN [fault_time |-> ft, state |-> code]
    ELSE [fault_time |-> ft, state |-> pending]

\* the branches that write state and clear the timer
cleared(code) == [fault_time |-> 0, state |-> code]

process_fan_state(ft, x, now) ==
    IF x.status_val = 1
    THEN IF x.current > FanCurrentLimit THEN cleared(1)
         ELSE confirm(ft, now, FaultWindow, 2, 0)
    ELSE cleared(0)

process_pump_state(ft, x, now) ==
    IF x.switch_on = 1 /\ x.duty_cycle >= SensorCfg.min_duty
    THEN IF x.current >= PumpCurrentLimit THEN cleared(1)
         ELSE confirm(ft, now, FaultWindow, 2, 0)
    ELSE cleared(0)

process_proportional_valve_state(ft, x, now) ==
    IF x.voltage < PvLowVoltage
    THEN IF x.duty_cycle >= PvDutyLimit THEN confirm(ft, now, PvFaultWindow, 2, 0)
         ELSE [fault_time |-> ft, state |-> 0]
    ELSE IF x.duty_cycle < PvDutyLimit /\ x.voltage < PvRunVoltage THEN cleared(0)
    ELSE IF x.duty_cycle >= PvDutyLimit /\ x.voltage >= PvRunVoltage THEN cleared(1)
    ELSE cleared(0)

process_temperature_state_no_reset(ft, x, now) ==
    IF x > TempFaultHigh \/ x < TempFaultLow THEN confirm(ft, now, FaultWindow, 0, 1)
    ELSE IF x < SensorCfg.min_temperature THEN confirm(ft, now, FaultWindow, 2, 1)
    ELSE IF x > SensorCfg.max_temperature * Pow10(SensorCfg.decimals)
    THEN confirm(ft, now, FaultWindow, 3, 1)
    ELSE [fault_time |-> ft, state |-> 1]

process_temperature_state(ft, x, now) ==
    IF x > TempFaultHigh \/ x < TempFaultLow THEN confirm(ft, now, FaultWindow, 0, 1)
    ELSE IF x < SensorCfg.min_temperature THEN confirm(ft, now, FaultWindow, 2, 1)
    ELSE IF x > SensorCfg.max_temperature * Pow10(SensorCfg.decimals)
    THEN confirm(ft, now, FaultWindow, 3, 1)
    ELSE cleared(1)

process_pressure_state(ft, x, now) ==
    IF x < PressureFaultLow THEN confirm(ft, now, FaultWindow, 0, 1)
    ELSE IF x < SensorCfg.min_pressure THEN confirm(ft, now, FaultWindow, 2, 1)
    ELSE IF x > SensorCfg.max_pressure * Pow10(SensorCfg.decimals)
    THEN confirm(ft, now, FaultWindow, 3, 1)
    ELSE cleared(1)

process_flow_state(ft, x, now) ==
    IF x < FlowFaultLow THEN confirm(ft, now, FaultWindow, 0, 1)
    ELSE IF x < SensorCfg.min_flow THEN confirm(ft, now, FaultWindow, 2, 1)
    ELSE IF x > SensorCfg.max_flow THEN confirm(ft, now, FaultWindow, 3, 1)
    ELSE cleared(1)

process_ph_state(ft, x, now) ==
    IF x < SensorCfg.min_ph \/ x > SensorCfg.max_ph THEN confirm(ft, now, FaultWindow, 0, 1)
    ELSE cleared(1)

process_environment_state(ft, x, now) ==
    IF \/ x > EnvExtremeHigh * Pow10(SensorCfg.decimals)
       \/ x < EnvExtremeLow * Pow10(SensorCfg.decimals)
    THEN confirm(ft, now, FaultWindow, 0, 1)
    ELSE IF x < SensorCfg.min_pht THEN confirm(ft, now, FaultWindow, 2, 1)
    ELSE IF x > SensorCfg.max_pht * Pow10(SensorCfg.decimals)
    THEN confirm(ft, now, FaultWindow, 3, 1)
    ELSE cleared(1)

process_state(dev, ft, x, now) ==
    CASE dev = "fan" -> process_fan_state(ft, x, now)
      [] dev = "pump" -> process_pump_state(ft, x, now)
      [] dev = "pv" -> process_proportional_valve_state(ft, x, now)
      [] dev = "temperature" -> process_temperature_state(ft, x, now)
      [] dev = "pressure" -> process_pressure_state(ft, x, now)
      [] dev = "flow" -> process_flow_state(ft, x, now)
      [] dev = "ph" -> process_ph_state(ft, x, now)
      [] dev = "environment" -> process_environment_state(ft, x, now)

\* the readings a device is sampled with: both sides of each threshold
Samples(dev) ==
    CASE dev = "fan" ->
            {[status_val |-> s, current |-> c] : s \in {0, 1}, c \in {100, 101}}
      [] dev = "pump" ->
            {[switch_on |-> s, duty_cycle |-> d, current |-> c] :
                s \in {0, 1}, d \in {9, 10}, c \in {99, 100}}
      [] dev = "pv" ->
            {[voltage |-> v, duty_cycle |-> d] : v \in {1989, 1990, 2050}, d \in {1999, 2000}}
      [] dev = "temperature" -> {-1001, 49, 50, 600, 601, 2001}
      [] dev = "pressure" -> {-51, -1, 0, 1000, 1001}
      [] dev = "flow" -> {-21, -1, 0, 100, 101}
      [] dev = "ph" -> {-1, 0, 14, 15}
      [] dev = "environment" -> {-1001, -1, 0, 600, 601, 2001}
      [] OTHER -> {}

\* the branch of the function a reading falls in
BranchOf(dev, x) ==
    CASE dev = "fan" ->
            IF x.status_val # 1 THEN "stopped"
            ELSE IF x.current > FanCurrentLimit THEN "normal" ELSE "fault"
      [] dev = "pump" ->
            IF ~(x.switch_on = 1 /\ x.duty_cycle >= SensorCfg.min_duty) THEN "stopped"
            ELSE IF x.current >= PumpCurrentLimit THEN "normal" ELSE "fault"
      [] dev = "pv" ->
            IF x.voltage < PvLowVoltage
            THEN IF x.duty_cycle >= PvDutyLimit THEN "fault" ELSE "standby"
            ELSE IF x.duty_cycle >= PvDutyLimit /\ x.voltage >= PvRunVoltage THEN "normal"
            ELSE "standby"
      [] dev = "temperature" ->
            IF x > TempFaultHigh \/ x < TempFaultLow THEN "fault"
            ELSE IF x < SensorCfg.min_temperature THEN "below"
            ELSE IF x > SensorCfg.max_temperature * Pow10(SensorCfg.decimals) THEN "above"
            ELSE "normal"
      [] dev = "pressure" ->
            IF x < PressureFaultLow THEN "fault"
            ELSE IF x < SensorCfg.min_pressure THEN "below"
            ELSE IF x > SensorCfg.max_pressure * Pow10(SensorCfg.decimals) THEN "above"
            ELSE "normal"
      [] dev = "flow" ->
            IF x < FlowFaultLow THEN "fault"
            ELSE IF x < SensorCfg.min_flow THEN "below"
            ELSE IF x > SensorCfg.max_flow THEN "above"
            ELSE "normal"
      [] dev = "ph" ->
            IF x < SensorCfg.min_ph \/ x > SensorCfg.max_ph THEN "fault" ELSE "normal"
      [] dev = "environment" ->
            IF \/ x > EnvExtremeHigh * Pow10(SensorCfg.decimals)
               \/ x < EnvExtremeLow * Pow10(SensorCfg.decimals) THEN "fault"
            ELSE IF x < SensorCfg.min_pht THEN "below"
            ELSE IF x > SensorCfg.max_pht * Pow10(SensorCfg.decimals) THEN "above"
            ELSE "normal"

\* one call of the process function of the device at the present time
sample(m, x) ==
    LET r == process_state(m.dev, m.fault_time, x, m.now)
        b == BranchOf(m.dev, x)
    IN [m EXCEPT !.fault_time = r.fault_time, !.status = r.state,
                 !.prev = m.branch, !.branch = b,
                 !.since = IF b = m.branch THEN m.since ELSE m.now]

FaultFrame == CoreFrame /\ UNCHANGED <<bio, raw, sched, ph, drv>> /\ LateFrame

\* the device to follow
Follow(dev) ==
    /\ mon.dev = "none"
    /\ mon' = [mon EXCEPT !.dev = dev]
    /\ FaultFrame

\* the derivation cycle processes the device
Sample(x) ==
    /\ mon.dev # "none"
    /\ mon' = sample(mon, x)
    /\ FaultFrame

\* time passes between two cycles
Advance ==
    /\ mon.dev # "none"
    /\ mon.now + TickStep <= MaxNow
    /\ mon' = [mon EXCEPT !.now = @ + TickStep]
    /\ FaultFrame

InitFaultSpec == ControlInit /\ poll = InitPoll /\ tq = InitQueue /\ sup = InitSup /\ lf = InitLf

NextFault ==
    \/ \E dev \in Devices : Follow(dev)
    \/ \E x \in Samples(mon.dev) : Sample(x)
    \/ Advance

SpecFault == InitFaultSpec /\ [][NextFault]_vars

(* Properties of SpecFault *)

EightSecondDevices == Devices \ {"pv"}

AbnormalBranches == {"fault", "below", "above"}

\* the codes that report a confirmed abnormal condition
ConfirmedCodes(dev) == IF dev \in {"fan", "pump", "pv"} THEN {2} ELSE {0, 2, 3}

\* the last sample was abnormal and started the timer
TimerJustStarted ==
    /\ mon.branch \in AbnormalBranches
    /\ mon.prev \notin AbnormalBranches
    /\ mon.fault_time = mon.since

\* C24: for a device with an 8 s confirmation, when an abnormal sample has
\* started the fault timer and the next sample is normal, that sample writes
\* the normal code 1 and sets the timer to unset, and an abnormal sample at
\* any later time starts the timer at that time without reporting a
\* confirmed code
C24_NormalSampleClearsTimer ==
    (mon.dev \in EightSecondDevices /\ TimerJustStarted) =>
        \A x \in Samples(mon.dev) :
            BranchOf(mon.dev, x) = "normal" =>
                \A r \in {sample(mon, x)} :
                    /\ r.status = 1
                    /\ r.fault_time = 0
                    /\ \A t \in r.now..MaxNow, y \in Samples(mon.dev) :
                           BranchOf(mon.dev, y) \in AbnormalBranches =>
                               \A q \in {sample([r EXCEPT !.now = t], y)} :
                                   /\ q.fault_time = t
                                   /\ q.status \notin ConfirmedCodes(mon.dev) \ {1}

\* an abnormal sample started the timer, the next sample was normal, and a
\* later abnormal sample has started the timer again
C24_Witness ==
    /\ mon.dev \in EightSecondDevices
    /\ mon.prev = "normal" /\ mon.branch \in AbnormalBranches
    /\ mon.fault_time = mon.now /\ mon.now > 1 + TickStep

Window(dev) == IF dev = "pv" THEN PvFaultWindow ELSE FaultWindow

BranchOfCode(dev, code) ==
    IF dev \in {"fan", "pump", "pv", "ph"} THEN "fault"
    ELSE CASE code = 0 -> "fault" [] code = 2 -> "below" [] code = 3 -> "above"

\* C25: a confirmed code is reported only when the samples have been in the
\* abnormal branch of that code, without a break, for the whole confirmation
\* window (12 s for the proportional valve, 8 s otherwise)
C25_ConfirmedOnlyAfterWindow ==
    (mon.dev # "none" /\ mon.status \in ConfirmedCodes(mon.dev)) =>
        /\ mon.branch = BranchOfCode(mon.dev, mon.status)
        /\ mon.now - mon.since >= Window(mon.dev)

-----------------------------------------------------------------------------
(* Specification SpecPid: one PidHelper object, constructed with a tuning
   of PidTunings, on which calculate and reset are called *)

MaxIntegral == 80    \* calculate is not called when the integral would pass it

PidTunings ==
    {PidHelper(kp, ki, kd, lim[1], lim[2], dt) :
        kp \in {1, 2}, ki \in {0, 1}, kd \in {0, 1}, dt \in {1, 2},
        lim \in {<<0, 100>>, <<-10, 10>>}}

\* target, measured, last_set_var, is_add
PidArgs ==
    {[target |-> tv, measured |-> 20, bias |-> b, is_add |-> a] :
        tv \in {0, 40}, b \in {0, 90}, a \in BOOLEAN}

Abs(x) == IF x < 0 THEN -x ELSE x

PidFrame == CoreFrame /\ UNCHANGED <<bio, raw, sched, mon, drv>> /\ LateFrame

\* PidHelper(kp, ki, kd, output_min, output_max, dt) replaces the object
Construct(h) ==
    /\ ph.op = "none"
    /\ ph' = [h |-> h, op |-> "new", was_reset |-> FALSE]
    /\ PidFrame

Calculate(a) ==
    /\ ph.op # "none"
    /\ \E r \in {calculate(ph.h, a.target, a.measured, a.bias, a.is_add)} :
          /\ Abs(r.h.integral) <= MaxIntegral
          /\ ph' = [h |-> r.h, op |-> "calculate", out |-> r.out, before |-> ph.h,
                    was_reset |-> ph.was_reset]
          /\ PidFrame

Reset ==
    /\ ph.op # "none"
    /\ ph' = [h |-> reset(ph.h), op |-> "reset", before |-> ph.h,
              was_reset |-> ph.was_reset \/ ph.h.integral # 0]
    /\ PidFrame

InitPidSpec == ControlInit /\ poll = InitPoll /\ tq = InitQueue /\ sup = InitSup /\ lf = InitLf

NextPid ==
    \/ \E h \in PidTunings : Construct(h)
    \/ \E a \in PidArgs : Calculate(a)
    \/ Reset

SpecPid == InitPidSpec /\ [][NextPid]_vars

(* Properties of SpecPid *)

\* the output as a function of the twelve values
PidOutput(kp, ki, kd, dt, out_min, out_max, prev_error, integral, target, measured,
          bias, is_add) ==
    LET e == IF is_add THEN target - measured ELSE measured - target
        u == kp * e + ki * (integral + e * dt) + kd * ((e - prev_error) \div dt) + bias
    IN IF u > out_max THEN (IF out_max < out_min THEN out_min ELSE out_max)
       ELSE IF u < out_min THEN out_min ELSE u

\* C27: what calculate returns is PidOutput of the tuning, the two state
\* fields and the four arguments, and lies in [output_min, output_max] when
\* output_min <= output_max; reset sets previous_error and integral to 0 and
\* leaves every other field, and reset after reset changes nothing
C27_CalculatePureResetIdempotent ==
    /\ \A a \in PidArgs :
          \A r \in {calculate(ph.h, a.target, a.measured, a.bias, a.is_add)} :
              /\ r.out = PidOutput(ph.h.kp, ph.h.ki, ph.h.kd, ph.h.dt, ph.h.output_min,
                                   ph.h.output_max, ph.h.previous_error, ph.h.integral,
                                   a.target, a.measured, a.bias, a.is_add)
              /\ ph.h.output_min <= ph.h.output_max =>
                    ph.h.output_min <= r.out /\ r.out <= ph.h.output_max
    /\ \A r \in {reset(ph.h)} :
          /\ r = [ph.h EXCEPT !.previous_error = 0, !.integral = 0]
          /\ reset(r) = r

\* reset has been called on an object with a non-zero integral, and later
\* calculate has clamped the output of an object with a non-zero state
C27_Witness ==
    /\ ph.op = "calculate" /\ ph.was_reset
    /\ ph.before.integral # 0 /\ ph.before.previous_error # 0
    /\ ph.out = ph.h.output_max /\ ph.h.ki # 0 /\ ph.h.kd # 0

-----------------------------------------------------------------------------
(* Specification SpecFlow: the control logic of Spec in flow mode, with the
   pump duty write registers followed in the processed map, the target flow
   written by the HMI and the flow F2 stored by the derivation cycle *)

MaxFlowIntegral == 150    \* the loop is not followed above this integral
MaxFlowDeficit == 10      \* nor below minus this one

FlowTargets == {500}
FlowValues == {400, 600, 64536}       \* 40.0, 60.0 and -100.0 L/min

FlowRegs == CtlRegs \cup {PUMP_DUTY_WRITE_START + i : i \in 0..(NPumps - 1)}

FlowRegisterInputs ==
    {<<CONTROL_MODE, m>> : m \in {1, 3}}
        \cup {<<CONTROL_MODE_TARGET_FLOW_REGISTER, v>> : v \in FlowTargets}

\* ProcessedRegisterMap.__init__: every register of the map is 0
InitFlowRegs == [r \in FlowRegs |-> IF r \in CtlRegs THEN InitRegs[r] ELSE 0]

InitFlowSpec ==
    /\ coils = [c \in CtlCoils |-> 0]
    /\ regs = InitFlowRegs
    /\ w = InitWriter
    /\ ac = InitAc
    /\ pids = [flow |-> InitPid, temp |-> InitPid, pressure |-> InitPid]
    /\ we_last = NoValue
    /\ fanTimer = [state |-> "none", age |-> 0]
    /\ conn = [tcp |-> TRUE, rtu |-> FALSE]
    /\ cbs = [coil |-> <<"hmi_write_trigger">>, register |-> <<"hmi_write_trigger">>]
    /\ cfg = [min |-> NoValue, max |-> NoValue, dec |-> 0, fbdec |-> 0, disabled |-> {}]
    /\ queue = <<>>
    /\ calls = <<>>
    /\ fired = <<>>
    /\ submitted = [k \in WriteKeys |-> NoValue]
    /\ poll = InitPoll /\ tq = InitQueue /\ sup = InitSup /\ lf = InitLf
    /\ UnitsInit

\* process_flow_state stores the calibrated flow of F2
FlowStored(v) ==
    /\ regs[FLOW_VALUE_START + 1] # v
    /\ regs' = [regs EXCEPT ![FLOW_VALUE_START + 1] = v]
    /\ UNCHANGED <<coils, w, ac, pids, we_last, fanTimer, conn, cbs, cfg, queue, calls,
                   fired, submitted, poll, tq, sup, lf>>
    /\ UnitsFrame

FlowLoopStep(in) ==
    /\ LoopStep(in, TRUE)
    /\ pids'.flow.integral <= MaxFlowIntegral
    /\ pids'.flow.integral >= -MaxFlowDeficit

NextFlow ==
    \/ \E p \in HmiCoilInputs : HmiSetCoil(p[1], p[2], TRUE)
    \/ \E p \in FlowRegisterInputs : HmiSetRegister(p[1], p[2], TRUE)
    \/ \E v \in FlowValues : FlowStored(v)
    \/ \E in \in Readings : FlowLoopStep(in)
    \/ FanTimerFire(TRUE)
    \/ Tick

SpecFlow == InitFlowSpec /\ [][NextFlow]_vars

(* Properties of SpecFlow *)

FlowStepReady ==
    /\ regs[CONTROL_MODE] = 3
    /\ ac.threads > 0 /\ ~ac.stop_requested /\ ac.is_running
    /\ ac.pump_startup_state = "ready"

\* the duty the claim gives for a control step in the present state
FlowDuty ==
    LET f2 == regs[FLOW_VALUE_START + 1]
        e == (regs[CONTROL_MODE_TARGET_FLOW_REGISTER]
                 - (IF f2 >= 32768 THEN f2 - 65536 ELSE f2)) \div 10
        u == Kp * e + Ki * (pids.flow.integral + e * Dt)
                 + Kd * ((e - pids.flow.previous_error) \div Dt) + ac.last_pump_duty
    IN Max(0, Min(100, Max(OutputMin, Min(OutputMax, u))))

\* C26: in mode 3 with the pump startup state ready, one pass of the control
\* loop stores as last_pump_duty the PID output for e = (target - F2) / 10,
\* F2 read as a signed 16-bit value, clamped to the PID limits and to
\* [0, 100], and leaves that duty times 100 in every pump duty write register
C26_FlowStepWritesDuty ==
    FlowStepReady =>
        \A s \in {AfterLoop(NoReadingsIn, TRUE)} :
            /\ s.ac.last_pump_duty = FlowDuty
            /\ \A i \in 0..(NPumps - 1) : s.regs[PUMP_DUTY_WRITE_START + i] = FlowDuty * 100

\* the documented example has run: target 500, F2 400, duty 10, 1000 written
C26_Witness ==
    /\ FlowStepReady
    /\ regs[CONTROL_MODE_TARGET_FLOW_REGISTER] = 500 /\ regs[FLOW_VALUE_START + 1] = 400
    /\ ac.last_pump_duty = 10 /\ pids.flow.previous_error = 10
    /\ \A i \in 0..(NPumps - 1) : regs[PUMP_DUTY_WRITE_START + i] = 1000

-----------------------------------------------------------------------------
(* Specification SpecSync: the derivation thread (sync_loop of
   start_processed_register_sync), the one-shot mirror
   _sync_read_to_write_registers_once and the HMI slave writing to the
   processed map at the same time. Of the cells the derivation stores, the
   model follows the read regions that the mirror copies, T1, T4 and the
   temperature difference. *)

FAN_DUTY_READ_START == 400
PV_DUTY_READ_START == 800
COIL_PUMP_SWITCH_READ_START == 65
COIL_IO_OUTPUT_READ_START == 233
TEMP_DIFF_START == 932
DataReadyChecks == 10      \* data_ready_check_count >= 10

\* device_data_manipulation.to_u16
ddm_to_u16(val) == IF val < 0 THEN (val + 65536) % 65536 ELSE val

\* the copies of the mirror in the order the body makes them:
\* <<kind, read address, write address>>
MirrorPairs ==
    [i \in 1..NPumps |-> <<"register", PUMP_DUTY_READ_START + i - 1, PUMP_DUTY_WRITE_START + i - 1>>]
    \o [i \in 1..NPVs |-> <<"register", PV_DUTY_READ_START + i - 1, PV_DUTY_WRITE_START + i - 1>>]
    \o [i \in 1..NFans |-> <<"register", FAN_DUTY_READ_START + i - 1, FAN_DUTY_WRITE_START + i - 1>>]
    \o [i \in 1..NFans |-> <<"coil", COIL_FAN_SWITCH_READ_START + i - 1, COIL_FAN_SWITCH_WRITE_START + i - 1>>]
    \o [i \in 1..NPumps |-> <<"coil", COIL_PUMP_SWITCH_READ_START + i - 1, COIL_PUMP_SWITCH_WRITE_START + i - 1>>]
    \o [i \in 1..NOutputs |-> <<"coil", COIL_IO_OUTPUT_READ_START + i - 1, COIL_IO_OUTPUT_WRITE_START + i - 1>>]

MirrorCells(kind, side) ==
    {MirrorPairs[k][side] : k \in {j \in 1..Len(MirrorPairs) : MirrorPairs[j][1] = kind}}

SyncRegs ==
    CtlRegs \cup MirrorCells("register", 2) \cup MirrorCells("register", 3)
        \cup {TEMP_VALUE_START, TEMP_VALUE_START + 3, TEMP_DIFF_START}

SyncCoils == CtlCoils \cup MirrorCells("coil", 2) \cup MirrorCells("coil", 3)

\* what the PCBA reports in a cycle: nothing yet, or a running plant
DeviceSamples == {"zero", "live"}

ReadValue(x, kind, address) ==
    IF x = "zero" THEN 0
    ELSE IF kind = "coil" THEN (address + 1) % 2
    ELSE 1000 + (address % 8)

\* calibrated temperatures of T1, and that of T4
TempSamples == {-5, 100}
TempT4 == 100

\* get_all_fan_states .. get_all_io_input_states: the read regions are stored
store_devices(s, x) ==
    LET one(st, k) ==
            IF MirrorPairs[k + 1][1] = "register"
            THEN call(st, "set_register",
                      <<MirrorPairs[k + 1][2], ReadValue(x, "register", MirrorPairs[k + 1][2]),
                        TRUE, FALSE>>)
            ELSE call(st, "set_coil",
                      <<MirrorPairs[k + 1][2], ReadValue(x, "coil", MirrorPairs[k + 1][2]),
                        FALSE, TRUE, FALSE>>)
    IN ForRange(one, s, Len(MirrorPairs))

\* process_temperature_state: the three set_register calls at its end
store_temperature(s, sensor_index, calc_val_int) ==
    LET s1 == call(s, "set_register",
                   <<TEMP_VALUE_START + sensor_index, ddm_to_u16(calc_val_int), TRUE, FALSE>>)
    IN call(s1, "set_register", <<TEMP_DIFF_START + sensor_index, 0, TRUE, FALSE>>)

\* get_temperature_diff: (t4 / 1000.0 - t1 / 1000.0) * 1000 rounds to t4 - t1
get_temperature_diff(s) ==
    LET t1 == get_register(s, TEMP_VALUE_START + 0)
        t4 == get_register(s, TEMP_VALUE_START + 3)
        diff_val == t4 - t1
    IN call(s, "set_register", <<TEMP_DIFF_START + 0, ddm_to_u16(diff_val), TRUE, FALSE>>)

\* one copy of _sync_read_to_write_registers_once
mirror_copy_with_callback(s, k) ==
    IF MirrorPairs[k][1] = "register"
    THEN call(s, "set_register",
              <<MirrorPairs[k][3], get_register(s, MirrorPairs[k][2]), TRUE, FALSE>>)
    ELSE call(s, "set_coil",
              <<MirrorPairs[k][3], get_coil(s, MirrorPairs[k][2]), FALSE, TRUE, FALSE>>)

mirror_copy(s, k) ==
    IF MirrorPairs[k][1] = "register"
    THEN call(s, "set_register",
              <<MirrorPairs[k][3], get_register(s, MirrorPairs[k][2]), FALSE, FALSE>>)
    ELSE call(s, "set_coil",
              <<MirrorPairs[k][3], get_coil(s, MirrorPairs[k][2]), FALSE, FALSE, FALSE>>)

\* "if has_actual_data or data_ready_check_count >= 10"
data_ready(s, count) ==
    \/ get_register(s, PUMP_DUTY_READ_START) # 0
    \/ get_register(s, FAN_DUTY_READ_START) # 0
    \/ get_register(s, PV_DUTY_READ_START) # 0
    \/ count >= DataReadyChecks

\* "with _first_sync_lock: if _first_sync_flag: return; _first_sync_flag = True"
mirror_enter(d, th) ==
    IF d.first_sync_flag THEN d
    ELSE [d EXCEPT !.first_sync_flag = TRUE, !.runner = th, !.mi = 1,
                   !.bodies = @ + 1, !.clean = TRUE]

InBody == drv.runner # "none" /\ drv.mi <= Len(MirrorPairs)

\* a step that is not the last copy of the body; a write by somebody else
Step(d, writes) ==
    [d EXCEPT !.at_completion = FALSE,
              !.clean = IF writes /\ drv.runner # "none" THEN FALSE ELSE @]

SyncRest == UNCHANGED <<poll, tq, sup, lf, bio, raw, sched, mon, ph>> /\ LateFrame

DeviceStates(x) ==
    /\ drv.pc = "devices"
    /\ CommitControl(store_devices(State, x))
    /\ drv' = [Step(drv, TRUE) EXCEPT !.pc = "t1"]
    /\ SyncRest

TemperatureT1(v) ==
    /\ drv.pc = "t1"
    /\ CommitControl(store_temperature(State, 0, v))
    /\ drv' = [Step(drv, FALSE) EXCEPT !.pc = "t4"]
    /\ SyncRest

TemperatureT4 ==
    /\ drv.pc = "t4"
    /\ CommitControl(store_temperature(State, 3, TempT4))
    /\ drv' = [Step(drv, FALSE) EXCEPT !.pc = "diff"]
    /\ SyncRest

TemperatureDiff ==
    /\ drv.pc = "diff"
    /\ \E s \in {get_temperature_diff(State)} :
          /\ CommitControl(s)
          /\ drv' = [Step(drv, FALSE) EXCEPT
                        !.pc = "check", !.first_done = TRUE,
                        !.diffs = @ \cup {to_u16(to_signed(s.regs[TEMP_VALUE_START + 3])
                                                 - to_signed(s.regs[TEMP_VALUE_START]))}]
    /\ SyncRest

\* "if first_run: ..." up to the call of the mirror
FirstRunCheck ==
    /\ drv.pc = "check"
    /\ drv' = IF ~drv.first_run THEN [Step(drv, FALSE) EXCEPT !.pc = "sleep"]
              ELSE IF data_ready(State, drv.data_ready_check_count + 1)
              THEN [Step(drv, FALSE) EXCEPT !.pc = "call", !.data_ready_check_count = @ + 1]
              ELSE [Step(drv, FALSE) EXCEPT !.pc = "sleep", !.data_ready_check_count = @ + 1]
    /\ BaseFrame /\ SyncRest

\* sync_loop enters _sync_read_to_write_registers_once
SyncEnter ==
    /\ drv.pc = "call"
    /\ \E d \in {mirror_enter(Step(drv, FALSE), "sync")} :
          drv' = [d EXCEPT !.pc = IF d.runner = "sync" THEN "body" ELSE "return"]
    /\ BaseFrame /\ SyncRest

\* another thread calls _sync_read_to_write_registers_once while sync_loop
\* is about to call it or is inside it
OtherEnter ==
    /\ drv.other = "idle"
    /\ drv.pc \in {"call", "body"}
    /\ \E d \in {mirror_enter(Step(drv, FALSE), "other")} :
          drv' = [d EXCEPT !.other = IF d.runner = "other" THEN "body" ELSE "returned"]
    /\ BaseFrame /\ SyncRest

\* the thread in the body makes its next copy
MirrorCopy ==
    /\ InBody
    /\ \E s \in {mirror_copy(State, drv.mi)} :
          /\ CommitControl(s)
          /\ drv' = [drv EXCEPT !.mi = @ + 1,
                                !.mirror_fired = @ \/ s.fired # <<>>,
                                !.at_completion = drv.mi = Len(MirrorPairs)]
    /\ SyncRest

\* the body is finished and the function returns
MirrorReturn ==
    /\ drv.runner # "none" /\ drv.mi > Len(MirrorPairs)
    /\ \/ drv.runner = "sync" /\ drv.pc = "body"
          /\ drv' = [Step(drv, FALSE) EXCEPT !.pc = "return"]
       \/ drv.runner = "other" /\ drv.other = "body"
          /\ drv' = [Step(drv, FALSE) EXCEPT !.other = "returned"]
    /\ BaseFrame /\ SyncRest

\* "first_run = False" and time.sleep(interval); data_ready_check_count is
\* not read again once first_run is False, and is left out from then on
SyncSleep ==
    /\ drv.pc \in {"return", "sleep"}
    /\ drv' = [Step(drv, FALSE) EXCEPT
                  !.pc = "devices",
                  !.first_run = IF drv.pc = "return" THEN FALSE ELSE @,
                  !.data_ready_check_count = IF drv.pc = "return" THEN 0 ELSE @]
    /\ BaseFrame /\ SyncRest

SyncHmiRegisters == {<<PUMP_DUTY_WRITE_START, 5000>>}
SyncHmiCoils == {<<COIL_IO_OUTPUT_WRITE_START, 1>>}

\* CduDataBlock.setValues while the derivation thread runs
SyncHmiSetRegister(address, v) ==
    /\ CommitControl(AfterHmiRegister(address, v, TRUE))
    /\ drv' = Step(drv, TRUE)
    /\ SyncRest

SyncHmiSetCoil(address, v) ==
    /\ CommitControl(AfterHmiCoil(address, v, TRUE))
    /\ drv' = Step(drv, TRUE)
    /\ SyncRest

InitSyncSpec ==
    /\ coils = [c \in SyncCoils |-> 0]
    /\ regs = [r \in SyncRegs |-> IF r \in CtlRegs THEN InitRegs[r] ELSE 0]
    /\ w = InitWriter
    /\ ac = InitAc
    /\ pids = [flow |-> InitPid, temp |-> InitPid, pressure |-> InitPid]
    /\ we_last = NoValue
    /\ fanTimer = [state |-> "none", age |-> 0]
    /\ conn = [tcp |-> TRUE, rtu |-> FALSE]
    /\ cbs = [coil |-> <<"hmi_write_trigger">>, register |-> <<"hmi_write_trigger">>]
    /\ cfg = [min |-> NoValue, max |-> NoValue, dec |-> 0, fbdec |-> 0, disabled |-> {}]
    /\ queue = <<>>
    /\ calls = <<>>
    /\ fired = <<>>
    /\ submitted = [k \in WriteKeys |-> NoValue]
    /\ poll = InitPoll /\ tq = InitQueue /\ sup = InitSup /\ lf = InitLf
    /\ UnitsInit

NextSync ==
    \/ \E x \in DeviceSamples : DeviceStates(x)
    \/ \E v \in TempSamples : TemperatureT1(v)
    \/ TemperatureT4
    \/ TemperatureDiff
    \/ FirstRunCheck
    \/ SyncEnter
    \/ OtherEnter
    \/ MirrorCopy
    \/ MirrorReturn
    \/ SyncSleep
    \/ \E p \in SyncHmiRegisters : SyncHmiSetRegister(p[1], p[2])
    \/ \E p \in SyncHmiCoils : SyncHmiSetCoil(p[1], p[2])

SpecSync == InitSyncSpec /\ [][NextSync]_vars

(* Properties of SpecSync *)

\* C28: once the first derivation cycle has computed the temperature
\* difference, register 932 holds the U16 encoding of T4 - T1 of some cycle
C28_TempDiffAlwaysDerived ==
    drv.first_done => regs[TEMP_DIFF_START] \in drv.diffs

\* outside the stretch of a cycle between process_temperature_state of T1
\* and get_temperature_diff the register does hold such a value
C28_TempDiffDerivedOutsideWindow ==
    (drv.first_done /\ drv.pc \notin {"t4", "diff"}) => regs[TEMP_DIFF_START] \in drv.diffs

Cell(kind, address) == IF kind = "coil" THEN coils[address] ELSE regs[address]

Mirrored ==
    \A k \in 1..Len(MirrorPairs) :
        Cell(MirrorPairs[k][1], MirrorPairs[k][3]) = Cell(MirrorPairs[k][1], MirrorPairs[k][2])

\* the body of the mirror has run at most once and none of its copies has
\* invoked a write callback
MirrorOnceNoCallback == drv.bodies <= 1 /\ ~drv.mirror_fired

\* C29 as stated: the body runs at most once, invokes no write callback, and
\* when it completes every write cell equals its read cell
C29_MirrorCopiesAll ==
    /\ MirrorOnceNoCallback
    /\ drv.at_completion => Mirrored

\* C29: the body runs at most once, invokes no write callback, and when it
\* completes every write cell equals its read cell, provided that no other
\* thread has written a mirrored cell while the body ran
C29_MirrorCopiesAllUndisturbed ==
    /\ MirrorOnceNoCallback
    /\ (drv.at_completion /\ drv.clean) => Mirrored

\* the body has just completed undisturbed with a running plant in the read
\* regions, after a second thread has called the function as well
C29_Witness ==
    /\ drv.at_completion /\ drv.clean /\ drv.other # "idle"
    /\ regs[PUMP_DUTY_READ_START] # 0
    /\ regs[PUMP_DUTY_WRITE_START] = regs[PUMP_DUTY_READ_START]

(* The polling scheduler with its tasks told apart (MappingPollingTaskManager
   on BasePollingTaskManager). pt.pc[wk] is the position of worker wk:
   "get" (the outer while and get_task), "wait" (wait_if_paused with the item
   in hand), "sleep" (execute_task sleeping until next_run), "mode"
   (update_mode at the top of execute_task), "gate" (wait_if_paused inside
   execute_task), "read" (the Modbus read), "retry" (wait_if_paused and
   sleep(1) after a failure) and "exited". The finally clause (task_done)
   touches nothing but active_tasks and is part of the step that ends the
   task. *)

\* occurrences of task in the queue
InQueue(q, task) == Cardinality({i \in 1..Len(q) : q[i] = task})

\* worker(): "while not self.shutdown_event.is_set()" and get_task: None once
\* shutdown_flag is set, else the first item; the tasks have one priority, so
\* the queue order is the order of the timestamps
tasks_get_task(s, wk) ==
    IF s.shutdown_flag THEN [s EXCEPT !.pc[wk] = "exited"]
    ELSE [s EXCEPT !.queue = Tail(@), !.item[wk] = Head(s.queue), !.pc[wk] = "wait"]

\* worker(): the inner "while not self.shutdown_event.is_set()" after
\* wait_if_paused has returned (first entry and every retry)
tasks_inner_loop(s, wk) ==
    IF s.shutdown_event THEN [s EXCEPT !.item[wk] = 0, !.pc[wk] = "get"]
    ELSE [s EXCEPT !.pc[wk] = "sleep"]

\* execute_task: self.update_mode(); links tells whether a transport is connected
tasks_update_mode(s, links) == [s EXCEPT !.paused = ~links]

\* execute_task without the re-enqueue of a continuous task
execute_task_no_requeue(s, wk, outcome, links) ==
    LET task == s.item[wk] IN
    CASE outcome = "success" ->
           [s EXCEPT !.item[wk] = 0, !.pc[wk] = "get"]
      [] outcome = "failure" ->
           [tasks_update_mode(s, links) EXCEPT !.pc[wk] = "retry"]
      [] OTHER -> [s EXCEPT !.pc[wk] = "retry"]

\* execute_task from the read on: a successful read re-enqueues a continuous
\* task with next_run = time.time() + interval unless shutdown_event is set
\* and returns True; a failed read marks the manager disconnected, calls
\* update_mode and returns False; an exception reaches the worker
execute_task(s, wk, outcome, links) ==
    LET task == s.item[wk] IN
    CASE outcome = "success" ->
           IF s.shutdown_event THEN [s EXCEPT !.item[wk] = 0, !.pc[wk] = "get"]
           ELSE [s EXCEPT !.next_run[task] = s.now + IntervalOf(task),
                          !.queue = Append(@, task),
                          !.item[wk] = 0, !.pc[wk] = "get"]
      [] outcome = "failure" ->
           [tasks_update_mode(s, links) EXCEPT !.pc[wk] = "retry"]
      [] OTHER -> [s EXCEPT !.pc[wk] = "retry"]

TasksFrame == CoreFrame /\ UNCHANGED <<bio, raw, sched, mon, ph, drv>> /\ UNCHANGED <<ww>> /\ UNCHANGED <<bw>> /\ UNCHANGED <<cm>> /\ UNCHANGED <<lp>> /\ UNCHANGED <<tc>>

ReadResults == {"success", "failure", "exception"}

TaskGet(wk) ==
    /\ pt.pc[wk] = "get"
    /\ pt.shutdown_flag \/ pt.queue # <<>>
    /\ pt' = tasks_get_task(pt, wk)
    /\ TasksFrame

\* wait_if_paused returns only while paused is false
TaskWait(wk) ==
    /\ pt.pc[wk] \in {"wait", "retry"}
    /\ ~pt.paused
    /\ pt' = tasks_inner_loop(pt, wk)
    /\ TasksFrame

\* execute_task: "if now < comm_task.next_run: time.sleep(...)"
TaskSleep(wk) ==
    /\ pt.pc[wk] = "sleep"
    /\ pt.now >= pt.next_run[pt.item[wk]]
    /\ pt' = [pt EXCEPT !.pc[wk] = "mode"]
    /\ TasksFrame

TaskMode(wk, links) ==
    /\ pt.pc[wk] = "mode"
    /\ pt' = [tasks_update_mode(pt, links) EXCEPT !.pc[wk] = "gate"]
    /\ TasksFrame

TaskGate(wk) ==
    /\ pt.pc[wk] = "gate"
    /\ ~pt.paused
    /\ pt' = [pt EXCEPT !.pc[wk] = "read"]
    /\ TasksFrame

TaskRead(wk, outcome, links) ==
    /\ pt.pc[wk] = "read"
    /\ pt' = execute_task(pt, wk, outcome, links)
    /\ TasksFrame

\* the mode watchdog and the reconnect callbacks: update_mode / resume
TasksWatchdog(links) ==
    /\ pt.paused = links
    /\ pt' = tasks_update_mode(pt, links)
    /\ TasksFrame

TasksTick ==
    /\ pt.now < MaxTaskClock
    /\ pt' = [pt EXCEPT !.now = @ + 1]
    /\ TasksFrame

\* MappingPollingTaskManager.shutdown: shutdown_event.set() and
\* task_queue.shutdown(), which sets shutdown_flag
TasksShutdown ==
    /\ ~pt.shutdown_event
    /\ pt' = [pt EXCEPT !.shutdown_event = TRUE, !.shutdown_flag = TRUE]
    /\ TasksFrame

InitTasksSpec == ControlInit /\ poll = InitPoll /\ tq = InitQueue /\ sup = InitSup /\ lf = InitLf

NextTasks ==
    \/ \E wk \in 1..TaskWorkers : TaskGet(wk)
    \/ \E wk \in 1..TaskWorkers : TaskWait(wk)
    \/ \E wk \in 1..TaskWorkers : TaskSleep(wk)
    \/ \E wk \in 1..TaskWorkers, links \in BOOLEAN : TaskMode(wk, links)
    \/ \E wk \in 1..TaskWorkers : TaskGate(wk)
    \/ \E wk \in 1..TaskWorkers, outcome \in ReadResults, links \in BOOLEAN :
          TaskRead(wk, outcome, links)
    \/ \E links \in BOOLEAN : TasksWatchdog(links)
    \/ TasksTick
    \/ TasksShutdown

SpecTasks == InitTasksSpec /\ [][NextTasks]_vars

(* Properties of SpecTasks *)

\* the workers that have the task in hand
Holders(s, task) == {wk \in 1..TaskWorkers : s.item[wk] = task}

Copies(s, task) == InQueue(s.queue, task) + Cardinality(Holders(s, task))

\* C31: until shutdown every continuous task exists exactly once, queued or
\* in the hand of one worker; a successful execution puts it back once with
\* next_run = completion time + interval; a failed execution leaves it with
\* the worker, which runs it again only after the pause condition has cleared.
C31_TaskExistsOnce ==
    [][/\ ~pt'.shutdown_event => \A task \in PollingTasks : Copies(pt', task) = 1
       /\ \A wk \in 1..TaskWorkers :
             LET task == pt.item[wk] IN
             /\ pt.pc[wk] = "read" /\ pt'.pc[wk] = "get" /\ ~pt.shutdown_event =>
                   /\ InQueue(pt'.queue, task) = InQueue(pt.queue, task) + 1
                   /\ pt'.next_run[task] = pt.now + IntervalOf(task)
                   /\ Holders(pt', task) = {}
             /\ pt.pc[wk] = "read" /\ pt'.pc[wk] = "retry" =>
                   pt'.item[wk] = task /\ pt'.queue = pt.queue
             /\ pt.pc[wk] = "retry" /\ pt'.pc[wk] # "retry" /\ ~pt.shutdown_event =>
                   ~pt.paused /\ pt'.pc[wk] = "sleep" /\ pt'.item[wk] = task]_vars

\* task 1 has been executed and put back for a later time while the other
\* worker holds task 2 after a failed read, with the scheduler paused
C31_Witness ==
    /\ ~pt.shutdown_event /\ pt.paused
    /\ pt.now > 0 /\ pt.next_run[1] = pt.now + IntervalOf(1)
    /\ InQueue(pt.queue, 1) = 1
    /\ \E wk \in 1..TaskWorkers : pt.pc[wk] = "retry" /\ pt.item[wk] = 2

(* The write path with its threads told apart: ComponentOperationTaskManager
   with its pool of workers running execute_write, the two connection
   managers, their reconnect supervisors and the line. ww.pc[wk] is the
   position of worker wk: "get" (get_task), "wait" (the worker's
   wait_if_paused), "top" (the test of "while retry < 3" and update_mode),
   "gate" (wait_if_paused in the loop), "writer", "manager" and "reconnect"
   (the three reads of current_mode), "call" (get_client in the batch
   writer), "write" (client.write_registers / write_coils in progress) and
   "failed" (the failure branch of execute_write); "new" before the thread
   is started. *)

\* is_connected of a manager; get_client returns the client under the same test
jobs_is_connected(s, t) == s.connected[t]

\* ComponentOperationTaskManager.update_mode
jobs_update_mode(s) ==
    IF jobs_is_connected(s, "tcp")
    THEN [s EXCEPT !.current_mode = "tcp", !.accept_new_task = TRUE, !.paused = FALSE]
    ELSE IF jobs_is_connected(s, "rtu")
    THEN [s EXCEPT !.current_mode = "rtu", !.accept_new_task = TRUE, !.paused = FALSE]
    ELSE [s EXCEPT !.current_mode = "none", !.accept_new_task = FALSE, !.paused = TRUE]

\* operate_component with a value that last_write_values does not hold at
\* its address: rejected when offline, else the job is put on the queue
jobs_operate_component(s0) ==
    LET s == jobs_update_mode(s0) IN
    IF ~s.accept_new_task THEN s ELSE [s EXCEPT !.queue = @ + 1]

\* the worker is through with its job: execute_write returns None and the
\* worker goes back to get_task
job_end(s, wk) ==
    [s EXCEPT !.job[wk] = FALSE, !.retry[wk] = 0,
              !.writer[wk] = "none", !.manager[wk] = "none",
              !.reconnect_mgr[wk] = "none", !.pc[wk] = "get"]

\* self.current_mode read for one of writer, manager and reconnect_mgr
by_mode(s) == IF s.current_mode = "tcp" THEN "tcp" ELSE "rtu"

\* ModbusBatchWriter.write_*: get_client, "ConnectionError" without a client
jobs_writer_call(s, wk) ==
    [s EXCEPT !.pc[wk] = IF jobs_is_connected(s, s.writer[wk]) THEN "write" ELSE "failed"]

\* the client calls of the batch writer have ended: "written" and "refused"
\* (error responses only) both return None, and execute_write leaves the loop
jobs_writer_return(s, wk, outcome) ==
    IF outcome = "exception" THEN [s EXCEPT !.pc[wk] = "failed"]
    ELSE job_end(s, wk)

\* BaseAutoReconnectManager.trigger_reconnect of an active supervisor
jobs_trigger_reconnect(s, t) == [s EXCEPT !.reconnecting[t] = TRUE]

\* execute_write, the failure branch: manager.connected = False under its
\* lock, trigger_reconnect, update_mode, retry += 1, sleep; after the third
\* failure the while loop ends and the function returns None
jobs_after_failure(s0, wk) ==
    LET s1 == [s0 EXCEPT !.connected[s0.manager[wk]] = FALSE]
        s == jobs_update_mode(jobs_trigger_reconnect(s1, s0.reconnect_mgr[wk]))
    IN IF s.retry[wk] + 1 < WriteRetries
       THEN [s EXCEPT !.retry[wk] = @ + 1, !.pc[wk] = "top"]
       ELSE job_end(s, wk)

\* _attempt_reconnect: disconnect(), then start_tcpconnect / start_rtuconnect;
\* on success the callback is run (the RTU callback reaches the writer's
\* update_mode, the TCP callback is the polling scheduler's resume); on
\* failure the timer is started again
jobs_attempt_reconnect(s, t) ==
    IF s.link[t]
    THEN [s EXCEPT !.connected[t] = TRUE, !.reconnecting[t] = FALSE,
                   !.callback = IF t = "rtu" THEN TRUE ELSE @]
    ELSE [s EXCEPT !.connected[t] = FALSE]

JobsFrame == CoreFrame /\ UNCHANGED <<bio, raw, sched, mon, ph, drv>> /\ UNCHANGED <<pt>> /\ UNCHANGED <<bw>> /\ UNCHANGED <<cm>> /\ UNCHANGED <<lp>> /\ UNCHANGED <<tc>>

WriteOutcomes == {"written", "refused", "exception"}

\* AppController.start_service with the lines as they are found:
\* start_tcpconnect and start_rtuconnect, the workers, then the supervisors,
\* which start their timer when the manager is not connected
jobs_start_service(s, lines) ==
    [s EXCEPT !.link = lines, !.connected = lines,
              !.reconnecting = [t \in Transports |-> ~lines[t]],
              !.pc = [wk \in WriteWorkers |-> "get"]]

Started == \A wk \in WriteWorkers : ww.pc[wk] # "new"

StartService(lines) ==
    /\ ~Started
    /\ ww' = jobs_start_service(ww, lines)
    /\ JobsFrame

\* a caller's operate_component
JobOperate ==
    /\ Started
    /\ ww.queue < MaxJobs
    /\ ww' = jobs_operate_component(ww)
    /\ JobsFrame

JobGet(wk) ==
    /\ ww.pc[wk] = "get"
    /\ ww.queue > 0
    /\ ww' = [ww EXCEPT !.queue = @ - 1, !.job[wk] = TRUE, !.pc[wk] = "wait"]
    /\ JobsFrame

\* wait_if_paused returns only while paused is false
JobWait(wk) ==
    /\ ww.pc[wk] \in {"wait", "gate"}
    /\ ~ww.paused
    /\ ww' = [ww EXCEPT !.pc[wk] = IF ww.pc[wk] = "wait" THEN "top" ELSE "writer"]
    /\ JobsFrame

JobTop(wk) ==
    /\ ww.pc[wk] = "top"
    /\ ww' = [jobs_update_mode(ww) EXCEPT !.pc[wk] = "gate"]
    /\ JobsFrame

JobPick(wk) ==
    /\ ww.pc[wk] \in {"writer", "manager", "reconnect"}
    /\ ww' = CASE ww.pc[wk] = "writer" ->
                    [ww EXCEPT !.writer[wk] = by_mode(ww), !.pc[wk] = "manager"]
               [] ww.pc[wk] = "manager" ->
                    [ww EXCEPT !.manager[wk] = by_mode(ww), !.pc[wk] = "reconnect"]
               [] OTHER ->
                    [ww EXCEPT !.reconnect_mgr[wk] = by_mode(ww), !.pc[wk] = "call"]
    /\ JobsFrame

JobCall(wk) ==
    /\ ww.pc[wk] = "call"
    /\ ww' = jobs_writer_call(ww, wk)
    /\ JobsFrame

\* the device answers over a line that is up; the calls on the client of a
\* line that is down raise
JobWrite(wk, outcome) ==
    /\ ww.pc[wk] = "write"
    /\ outcome = "exception" <=> ~ww.link[ww.writer[wk]]
    /\ ww' = jobs_writer_return(ww, wk, outcome)
    /\ JobsFrame

JobFailed(wk) ==
    /\ ww.pc[wk] = "failed"
    /\ ww' = jobs_after_failure(ww, wk)
    /\ JobsFrame

\* the timer of a supervisor fires
SupAttempt(t) ==
    /\ ww.reconnecting[t]
    /\ ww' = jobs_attempt_reconnect(ww, t)
    /\ JobsFrame

\* the thread pool runs _on_rtu_reconnected
SupCallback ==
    /\ ww.callback
    /\ ww' = [jobs_update_mode(ww) EXCEPT !.callback = FALSE]
    /\ JobsFrame

\* a polling read fails on a line that is down: the manager is marked
\* disconnected and its supervisor triggered
PollMark(t) ==
    /\ ~ww.link[t] /\ ww.connected[t]
    /\ ww' = jobs_trigger_reconnect([ww EXCEPT !.connected[t] = FALSE], t)
    /\ JobsFrame

\* the line of a transport goes down or comes back
LineChange(t) ==
    /\ Started
    /\ ww.changes < MaxLineChanges
    /\ ww' = [ww EXCEPT !.link[t] = ~@, !.changes = @ + 1]
    /\ JobsFrame

InitJobsSpec == ControlInit /\ poll = InitPoll /\ tq = InitQueue /\ sup = InitSup /\ lf = InitLf

NextJobs ==
    \/ \E lines \in [Transports -> BOOLEAN] : StartService(lines)
    \/ JobOperate
    \/ \E wk \in WriteWorkers : JobGet(wk)
    \/ \E wk \in WriteWorkers : JobWait(wk)
    \/ \E wk \in WriteWorkers : JobTop(wk)
    \/ \E wk \in WriteWorkers : JobPick(wk)
    \/ \E wk \in WriteWorkers : JobCall(wk)
    \/ \E wk \in WriteWorkers, outcome \in WriteOutcomes : JobWrite(wk, outcome)
    \/ \E wk \in WriteWorkers : JobFailed(wk)
    \/ \E t \in Transports : SupAttempt(t)
    \/ SupCallback
    \/ \E t \in Transports : PollMark(t)
    \/ \E t \in Transports : LineChange(t)

SpecJobs == InitJobsSpec /\ [][NextJobs]_vars

(* Properties of SpecJobs *)

\* C33: no two write operations are in progress at the same time on the client
\* of one transport.
C33_WritesSerializedPerClient ==
    \A a, b \in WriteWorkers :
        a # b /\ ww.pc[a] = "write" /\ ww.pc[b] = "write" => ww.writer[a] # ww.writer[b]

\* the failure branch of execute_write is run by worker wk
FailureHandled(wk) == ww.pc[wk] = "failed" /\ ww'.pc[wk] # "failed"

\* C32: a job is written at most three times, the mode is evaluated before
\* each attempt, after a failed attempt the manager of the transport written
\* to is marked disconnected and its supervisor triggered, and the third
\* failure ends the job without putting it back.
C32_ThreeAttemptsMarkTransport ==
    [][\A wk \in WriteWorkers :
          /\ ww.pc[wk] = "call" /\ ww'.pc[wk] # "call" => ww.retry[wk] < WriteRetries
          /\ ww.pc[wk] = "top" /\ ww'.pc[wk] = "gate" =>
                ww'.current_mode = jobs_update_mode(ww).current_mode
          /\ FailureHandled(wk) =>
                /\ ~ww'.connected[ww.writer[wk]]
                /\ ww'.reconnecting[ww.writer[wk]]
          /\ FailureHandled(wk) /\ ww.retry[wk] = WriteRetries - 1 =>
                ww'.pc[wk] = "get" /\ ~ww'.job[wk] /\ ww'.queue = ww.queue]_vars

\* what the code guarantees: the same, for an attempt whose three reads of
\* current_mode gave one transport
C32_ThreeAttemptsMarkTransportOneMode ==
    [][\A wk \in WriteWorkers :
          /\ ww.pc[wk] = "call" /\ ww'.pc[wk] # "call" => ww.retry[wk] < WriteRetries
          /\ FailureHandled(wk) /\ ww.manager[wk] = ww.writer[wk]
                /\ ww.reconnect_mgr[wk] = ww.writer[wk] =>
                /\ ~ww'.connected[ww.writer[wk]]
                /\ ww'.reconnecting[ww.writer[wk]]
          /\ FailureHandled(wk) /\ ww.retry[wk] = WriteRetries - 1 =>
                ww'.pc[wk] = "get" /\ ~ww'.job[wk] /\ ww'.queue = ww.queue]_vars

(* Specification SpecJobsLive: the write path under the scheduling of its
   threads. The workers of the pool and the pool thread that runs the
   callback go on whenever they can, and the timer of a supervisor that is
   reconnecting fires again and again (auto_reconnect.py, _schedule_reconnect);
   callers, the polling reads and the lines are under no obligation. *)
JobsFairness ==
    /\ \A wk \in WriteWorkers :
          /\ WF_vars(JobGet(wk))
          /\ WF_vars(JobWait(wk))
          /\ WF_vars(JobTop(wk))
          /\ WF_vars(JobPick(wk))
          /\ WF_vars(JobCall(wk))
          /\ WF_vars(\E outcome \in WriteOutcomes : JobWrite(wk, outcome))
          /\ WF_vars(JobFailed(wk))
    /\ \A t \in Transports : WF_vars(SupAttempt(t))
    /\ WF_vars(SupCallback)

SpecJobsLive == InitJobsSpec /\ [][NextJobs]_vars /\ JobsFairness

\* worker wk holds a job and is kept in wait_if_paused
JobBlocked(wk) == ww.job[wk] /\ ww.pc[wk] \in {"wait", "gate"} /\ ww.paused

\* transport t has been connected over a line that is up
LineConnected(t) == ww.connected[t] /\ ww.link[t]

\* C38: once a transport is connected again and stays so, a worker that holds
\* an accepted job does not stay blocked in wait_if_paused, with no further
\* call of operate_component.
C38_BlockedWorkerResumes ==
    \A wk \in WriteWorkers :
        (\E t \in Transports : <>[]LineConnected(t)) => []<>(~JobBlocked(wk))

\* what the code guarantees: the same after a reconnection of the RTU manager,
\* whose callback reaches the update_mode of the write manager
C38_BlockedWorkerResumesOnRtu ==
    \A wk \in WriteWorkers : <>[]LineConnected("rtu") => []<>(~JobBlocked(wk))

-----------------------------------------------------------------------------
(* Specification SpecGuards: batch_write_pump_duty, batch_write_pv_duty and
   batch_write_io_outputs called from their threads. bw.pc[th] is the
   position of thread th in its call: "guard" (the test of _executing),
   "set" (the assignment _executing = True), "body" (the try block) and
   "finally" (the assignment _executing = False); "idle" outside a call. *)

\* "if getattr(f, '_executing', False): return False"
guard_test(s, th) ==
    IF s.executing[s.kind[th]]
    THEN [s EXCEPT !.pc[th] = "idle", !.kind[th] = "none", !.result[th] = "reentrant"]
    ELSE [s EXCEPT !.pc[th] = "set"]

\* "f._executing = True"
guard_set(s, th) == [s EXCEPT !.executing[s.kind[th]] = TRUE, !.pc[th] = "body"]

\* the try block: refused without write enable or without configured
\* components, else the write registers of the kind are set
guard_body(s, th, allowed) ==
    [s EXCEPT !.result[th] = IF allowed THEN "written" ELSE "denied", !.pc[th] = "finally"]

\* "finally: f._executing = False"
guard_finally(s, th) ==
    [s EXCEPT !.executing[s.kind[th]] = FALSE, !.pc[th] = "idle", !.kind[th] = "none"]

GuardsFrame == CoreFrame /\ UNCHANGED <<bio, raw, sched, mon, ph, drv>> /\ UNCHANGED <<pt, ww>> /\ UNCHANGED <<cm>> /\ UNCHANGED <<lp>> /\ UNCHANGED <<tc>>

BatchCall(th, k) ==
    /\ bw.pc[th] = "idle"
    /\ bw' = [bw EXCEPT !.pc[th] = "guard", !.kind[th] = k, !.result[th] = "none"]
    /\ GuardsFrame

BatchGuard(th) ==
    /\ bw.pc[th] = "guard"
    /\ bw' = guard_test(bw, th)
    /\ GuardsFrame

BatchSet(th) ==
    /\ bw.pc[th] = "set"
    /\ bw' = guard_set(bw, th)
    /\ GuardsFrame

BatchBody(th, allowed) ==
    /\ bw.pc[th] = "body"
    /\ bw' = guard_body(bw, th, allowed)
    /\ GuardsFrame

BatchFinally(th) ==
    /\ bw.pc[th] = "finally"
    /\ bw' = guard_finally(bw, th)
    /\ GuardsFrame

InitGuardsSpec == InitJobsSpec

NextGuards ==
    \/ \E th \in BatchCallers : \E k \in KindsOf(th) : BatchCall(th, k)
    \/ \E th \in BatchCallers : BatchGuard(th)
    \/ \E th \in BatchCallers : BatchSet(th)
    \/ \E th \in BatchCallers, allowed \in BOOLEAN : BatchBody(th, allowed)
    \/ \E th \in BatchCallers : BatchFinally(th)

SpecGuards == InitGuardsSpec /\ [][NextGuards]_vars

(* Properties of SpecGuards *)

\* the invocations of kind k that are past the reentrancy guard
PastGuard(k) == {th \in BatchCallers : bw.kind[th] = k /\ bw.pc[th] \in {"set", "body", "finally"}}

\* C34: for each batch writer at most one invocation is past the reentrancy
\* guard at any time, and the flag is false whenever no invocation of that
\* kind is executing.
C34_OneInvocationPastGuard ==
    \A k \in BatchKinds :
        /\ Cardinality(PastGuard(k)) <= 1
        /\ (\A th \in BatchCallers : bw.kind[th] # k) => ~bw.executing[k]

\* what the code guarantees: a call that finds the flag set returns at once
\* without writing, and the flag is false when no invocation is executing
C34_SetFlagRefuses ==
    [][\A th \in BatchCallers :
          bw.pc[th] = "guard" /\ bw'.pc[th] # "guard" /\ bw.executing[bw.kind[th]] =>
              bw'.pc[th] = "idle" /\ bw'.result[th] = "reentrant"
                  /\ bw'.executing = bw.executing]_vars

-----------------------------------------------------------------------------
(* Specification SpecLocks: the two connection managers with their
   connection_lock, and the threads that change them. cm.pc is the position
   of the polling worker in execute_task: "gate" (wait_if_paused), "reader",
   "manager" and "reconnect" (the three reads of current_mode), "read" (the
   read in progress), "coil" and "register" (a failed read of that kind,
   before the lock is taken), "coil_locked" and "register_locked" (inside
   "with manager.connection_lock"), "trigger" (after it). cm.sup_pc[t] is
   the position of the timer thread of supervisor t in _attempt_reconnect:
   "disc" (inside disconnect), "between", "connect" (inside
   start_tcpconnect / start_rtuconnect), "mark" (after a successful
   start_rtuconnect). cm.lock[t] is the thread that holds the
   connection_lock of manager t. *)

\* is_connected of a manager: connected and client is not None
locks_is_connected(s, t) == s.connected[t] /\ s.client[t]

\* MappingPollingTaskManager.update_mode takes the lock of the TCP manager
\* when it leaves mode "tcp"
takes_tcp_lock(s) == ~locks_is_connected(s, "tcp") /\ s.current_mode = "tcp"

\* MappingPollingTaskManager.update_mode; where it closes the TCP client the
\* manager is already marked disconnected
locks_update_mode(s) ==
    IF locks_is_connected(s, "tcp") THEN [s EXCEPT !.current_mode = "tcp", !.paused = FALSE]
    ELSE IF locks_is_connected(s, "rtu") THEN [s EXCEPT !.current_mode = "rtu", !.paused = FALSE]
    ELSE [s EXCEPT !.current_mode = "none", !.paused = TRUE]

\* self.current_mode read for one of reader, manager and reconnect_mgr
locks_by_mode(s) == IF s.current_mode = "tcp" THEN "tcp" ELSE "rtu"

\* the register branch closes the TCP client when current_mode is "tcp"
closes_tcp(s) == s.pc = "register_locked" /\ s.current_mode = "tcp" /\ s.client["tcp"]

\* execute_task, inside "with manager.connection_lock": manager.connected =
\* False and, in the register branch, the TCP client closed and the TCP
\* manager marked
locks_read_failed(s) ==
    LET s1 == [s EXCEPT !.connected[s.manager] = FALSE]
        s2 == IF closes_tcp(s) THEN [s1 EXCEPT !.connected["tcp"] = FALSE] ELSE s1
    IN [s2 EXCEPT !.lock[s.manager] = "free", !.pc = "trigger"]

\* trigger_reconnect of an active supervisor
locks_trigger_reconnect(s, t) == [s EXCEPT !.reconnecting[t] = TRUE]

\* execute_task after the lock: trigger_reconnect, update_mode, return False
locks_after_failure(s) ==
    [locks_update_mode(locks_trigger_reconnect(s, s.reconnect_mgr))
        EXCEPT !.pc = "idle", !.reader = "none", !.manager = "none",
               !.reconnect_mgr = "none"]

SupThread(t) == IF t = "tcp" THEN "sup_tcp" ELSE "sup_rtu"

\* disconnect(), inside its lock: the client closed and dropped
locks_disconnect(s, t) ==
    [s EXCEPT !.client[t] = FALSE, !.connected[t] = FALSE, !.lock[t] = "free",
              !.sup_pc[t] = "between"]

\* start_tcpconnect / start_rtuconnect inside its lock, and what
\* _attempt_reconnect does with the result: the TCP supervisor ends the
\* reconnection and submits its callback, the RTU supervisor goes on to its
\* own assignment of connected, a failure starts the timer again
locks_start_connect(s, t) ==
    IF s.connected[t] \/ s.link[t]
    THEN LET s1 == [s EXCEPT !.client[t] = IF s.connected[t] THEN @ ELSE TRUE,
                            !.connected[t] = TRUE, !.lock[t] = "free"]
         IN IF t = "tcp"
            THEN [s1 EXCEPT !.reconnecting[t] = FALSE, !.callback = TRUE, !.sup_pc[t] = "idle"]
            ELSE [s1 EXCEPT !.sup_pc[t] = "mark"]
    ELSE [s EXCEPT !.client[t] = FALSE, !.connected[t] = FALSE, !.lock[t] = "free",
                   !.sup_pc[t] = "idle"]

\* RtuAutoReconnectManager._attempt_reconnect after a successful
\* start_rtuconnect: "self.conn_manager.connected = True"; the callback it
\* submits is the update_mode that the watchdog makes as well
locks_rtu_success(s) ==
    [s EXCEPT !.connected["rtu"] = TRUE, !.reconnecting["rtu"] = FALSE, !.sup_pc["rtu"] = "idle"]

\* a failed write (execute_write) or a failed heartbeat (_force_read_rtu),
\* inside "with manager.connection_lock", and the trigger after it
locks_mark_failed(s) ==
    [locks_trigger_reconnect(s, s.aux_t)
        EXCEPT !.connected[s.aux_t] = FALSE, !.lock[s.aux_t] = "free",
               !.aux_pc = "idle", !.aux_t = "none"]

\* start_service: start_tcpconnect and start_rtuconnect over the lines as
\* they are found, then the supervisors
locks_start_service(s, lines) ==
    [s EXCEPT !.link = lines, !.connected = lines, !.client = lines,
              !.reconnecting = [t \in Transports |-> ~lines[t]],
              !.started = TRUE]

LocksFrame == CoreFrame /\ UNCHANGED <<bio, raw, sched, mon, ph, drv>> /\ UNCHANGED <<pt, ww, bw>> /\ UNCHANGED <<lp>> /\ UNCHANGED <<tc>>

LkStartService(lines) ==
    /\ ~cm.started
    /\ cm' = locks_start_service(cm, lines)
    /\ LocksFrame

\* the mode watchdog, every 0.2 s
LkWatchdog ==
    /\ cm.started
    /\ takes_tcp_lock(cm) => cm.lock["tcp"] = "free"
    /\ cm' = locks_update_mode(cm)
    /\ LocksFrame

\* the polling worker begins execute_task: update_mode
LkBegin ==
    /\ cm.started /\ cm.pc = "idle"
    /\ takes_tcp_lock(cm) => cm.lock["tcp"] = "free"
    /\ cm' = [locks_update_mode(cm) EXCEPT !.pc = "gate"]
    /\ LocksFrame

LkGate ==
    /\ cm.pc = "gate" /\ ~cm.paused
    /\ cm' = [cm EXCEPT !.pc = "reader"]
    /\ LocksFrame

LkPick ==
    /\ cm.pc \in {"reader", "manager", "reconnect"}
    /\ cm' = CASE cm.pc = "reader" -> [cm EXCEPT !.reader = locks_by_mode(cm), !.pc = "manager"]
               [] cm.pc = "manager" -> [cm EXCEPT !.manager = locks_by_mode(cm), !.pc = "reconnect"]
               [] OTHER -> [cm EXCEPT !.reconnect_mgr = locks_by_mode(cm), !.pc = "read"]
    /\ LocksFrame

\* the read returns: values over a connected manager whose line is up, else
\* no values, for a coil task or a register task
LkRead(outcome) ==
    /\ cm.pc = "read"
    /\ outcome = "values" <=> (cm.link[cm.reader] /\ locks_is_connected(cm, cm.reader))
    /\ cm' = IF outcome = "values"
             THEN [cm EXCEPT !.pc = "idle", !.reader = "none", !.manager = "none",
                             !.reconnect_mgr = "none"]
             ELSE [cm EXCEPT !.pc = outcome]
    /\ LocksFrame

\* "with manager.connection_lock:" entered
LkFailLock ==
    /\ cm.pc \in {"coil", "register"}
    /\ cm.lock[cm.manager] = "free"
    /\ cm' = [cm EXCEPT !.lock[cm.manager] = "poll",
                        !.pc = IF cm.pc = "coil" THEN "coil_locked" ELSE "register_locked"]
    /\ LocksFrame

LkFailMark ==
    /\ cm.pc \in {"coil_locked", "register_locked"}
    /\ cm' = locks_read_failed(cm)
    /\ LocksFrame

LkFailEnd ==
    /\ cm.pc = "trigger"
    /\ takes_tcp_lock(locks_trigger_reconnect(cm, cm.reconnect_mgr)) => cm.lock["tcp"] = "free"
    /\ cm' = locks_after_failure(cm)
    /\ LocksFrame

\* the timer of supervisor t fires: _attempt_reconnect enters disconnect
LkSupFire(t) ==
    /\ cm.reconnecting[t] /\ cm.sup_pc[t] = "idle"
    /\ cm.lock[t] = "free"
    /\ cm' = [cm EXCEPT !.lock[t] = SupThread(t), !.sup_pc[t] = "disc"]
    /\ LocksFrame

LkSupDisconnect(t) ==
    /\ cm.sup_pc[t] = "disc"
    /\ cm' = locks_disconnect(cm, t)
    /\ LocksFrame

LkSupEnter(t) ==
    /\ cm.sup_pc[t] = "between"
    /\ cm.lock[t] = "free"
    /\ cm' = [cm EXCEPT !.lock[t] = SupThread(t), !.sup_pc[t] = "connect"]
    /\ LocksFrame

LkSupConnect(t) ==
    /\ cm.sup_pc[t] = "connect"
    /\ cm' = locks_start_connect(cm, t)
    /\ LocksFrame

LkSupRtuSuccess ==
    /\ cm.sup_pc["rtu"] = "mark"
    /\ cm' = locks_rtu_success(cm)
    /\ LocksFrame

\* the thread pool runs the callback of the TCP supervisor, resume()
LkCallback ==
    /\ cm.callback
    /\ cm' = [cm EXCEPT !.callback = FALSE, !.paused = FALSE]
    /\ LocksFrame

\* a write worker (who = "write") or the heartbeat (who = "hb", RTU only)
\* has failed on transport t and enters "with manager.connection_lock"
LkAuxLock(who, t) ==
    /\ cm.started /\ cm.aux_pc = "idle"
    /\ who = "hb" => t = "rtu"
    /\ ~cm.link[t] \/ ~locks_is_connected(cm, t)
    /\ cm.lock[t] = "free"
    /\ cm' = [cm EXCEPT !.lock[t] = who, !.aux_pc = who, !.aux_t = t]
    /\ LocksFrame

LkAuxMark ==
    /\ cm.aux_pc # "idle"
    /\ cm' = locks_mark_failed(cm)
    /\ LocksFrame

\* the line of a transport goes down or comes back
LkLine(t) ==
    /\ cm.started
    /\ cm' = [cm EXCEPT !.link[t] = ~@]
    /\ LocksFrame

InitLocksSpec == InitJobsSpec

NextLocks ==
    \/ \E lines \in [Transports -> BOOLEAN] : LkStartService(lines)
    \/ LkWatchdog
    \/ LkBegin
    \/ LkGate
    \/ LkPick
    \/ \E outcome \in {"values", "coil", "register"} : LkRead(outcome)
    \/ LkFailLock
    \/ LkFailMark
    \/ LkFailEnd
    \/ \E t \in Transports : LkSupFire(t)
    \/ \E t \in Transports : LkSupDisconnect(t)
    \/ \E t \in Transports : LkSupEnter(t)
    \/ \E t \in Transports : LkSupConnect(t)
    \/ LkSupRtuSuccess
    \/ LkCallback
    \/ \E who \in {"write", "hb"}, t \in Transports : LkAuxLock(who, t)
    \/ LkAuxMark
    \/ \E t \in Transports : LkLine(t)

SpecLocks == InitLocksSpec /\ [][NextLocks]_vars

(* Properties of SpecLocks *)

\* the position of thread th
PcOf(s, th) ==
    CASE th = "poll" -> s.pc
      [] th = "sup_tcp" -> s.sup_pc["tcp"]
      [] th = "sup_rtu" -> s.sup_pc["rtu"]
      [] OTHER -> IF s.aux_pc = th THEN "locked" ELSE "idle"

\* the thread that takes the step
Stepping(th) ==
    \/ PcOf(cm, th) # PcOf(cm', th)
    \/ th \in {"write", "hb"} /\ cm.aux_pc = th

\* C35: every change of the connected flag or of the client handle of a
\* manager is made by a thread that holds the connection_lock of that
\* manager.
C35_ChangesUnderOwnLock ==
    [][cm.started =>
          \A t \in Transports :
              (cm'.connected[t] # cm.connected[t] \/ cm'.client[t] # cm.client[t]) =>
                  \E th \in LockThreads : Stepping(th) /\ cm.lock[t] = th]_vars

\* C40: when a polling read fails, the manager that is marked, the lock that
\* is held, the client that is closed and the supervisor that is triggered
\* belong to the transport of the reader the read was made with.
C40_FailureHandledOnReadTransport ==
    [][/\ (cm.pc \in {"coil_locked", "register_locked"} /\ cm'.pc = "trigger") =>
             /\ cm.manager = cm.reader
             /\ cm.lock[cm.reader] = "poll"
             /\ ~cm'.connected[cm.reader]
             /\ closes_tcp(cm) => cm.reader = "tcp"
       /\ (cm.pc = "trigger" /\ cm'.pc = "idle") =>
             (cm.reconnect_mgr = cm.reader /\ cm'.reconnecting[cm.reader])]_vars

\* what the code guarantees: the same, for a task whose reads of
\* current_mode all gave one transport
C40_FailureHandledOneMode ==
    [][/\ (cm.pc \in {"coil_locked", "register_locked"} /\ cm'.pc = "trigger"
             /\ cm.manager = cm.reader /\ (closes_tcp(cm) => cm.reader = "tcp")) =>
             (cm.lock[cm.reader] = "poll" /\ ~cm'.connected[cm.reader])
       /\ (cm.pc = "trigger" /\ cm'.pc = "idle" /\ cm.reconnect_mgr = cm.reader) =>
             cm'.reconnecting[cm.reader]]_vars

-----------------------------------------------------------------------------
(* Specification SpecLoop: start_auto_control and stop_auto_control called
   from two threads, and the loop threads they start. lp.thread[i] is the
   position of loop thread i in _auto_control_loop: "test" (before
   _should_continue), "step" (in the control step of the pass), "none" when
   the thread does not exist or has ended. lp.caller[c] is "starting" while
   caller c is in start_auto_control past its tests and "joining" while it
   is in the join of stop_auto_control; lp.control_thread is the thread
   started last, 0 before the first. *)

\* AutoControlManager._should_continue
loop_should_continue(s) == ~s.stop_requested /\ s.is_running

\* stop_auto_control up to the join: the flags are set
loop_stop(s) ==
    IF ~s.is_running THEN s
    ELSE [s EXCEPT !.is_running = FALSE, !.stop_requested = TRUE]

\* stop_auto_control called by thread c, which then joins the control thread
loop_stop_by(s, c) ==
    IF ~s.is_running THEN s ELSE [loop_stop(s) EXCEPT !.caller[c] = "joining"]

\* _request_stop
loop_request_stop(s, c) == loop_stop_by([s EXCEPT !.stop_requested = TRUE], c)

\* join(timeout=2.0) can return: the control thread has ended, or it is in
\* a control step that outlasts the 2 s
join_returns(s) ==
    s.control_thread = 0 \/ s.thread[s.control_thread] \in {"none", "step"}

\* start_auto_control up to its tests: returns when already running or when
\* write enable or the control mode forbid the start
loop_start_tests(s, c, allowed) ==
    IF s.is_running \/ ~allowed THEN s ELSE [s EXCEPT !.caller[c] = "starting"]

\* start_auto_control after its tests: the stop request is dropped,
\* is_running is set and a new thread is started
loop_start_thread(s, c, i) ==
    [s EXCEPT !.stop_requested = FALSE, !.is_running = TRUE, !.thread[i] = "test",
              !.control_thread = i, !.caller[c] = "idle"]

\* the test of "while self._should_continue()"
loop_test(s, i) ==
    [s EXCEPT !.thread[i] = IF loop_should_continue(s) THEN "step" ELSE "none"]

\* the pass of the loop: the control step goes on, or it fails and the loop
\* is left, or the pump start-up has failed and the loop calls
\* stop_auto_control, whose join of the current thread raises into the
\* handler of the pass
loop_pass(s, i, outcome) ==
    CASE outcome = "next" -> [s EXCEPT !.thread[i] = "test"]
      [] outcome = "break" -> [s EXCEPT !.thread[i] = "none"]
      [] OTHER -> [loop_stop(s) EXCEPT !.thread[i] = "test"]

LoopFrame == CoreFrame /\ UNCHANGED <<bio, raw, sched, mon, ph, drv>> /\ UNCHANGED <<pt, ww, bw, cm>> /\ UNCHANGED <<tc>>

LoopStartTests(c, allowed) ==
    /\ lp.caller[c] = "idle"
    /\ lp' = loop_start_tests(lp, c, allowed)
    /\ LoopFrame

LoopStartThread(c) ==
    /\ lp.caller[c] = "starting"
    /\ \E i \in 1..LoopSlots :
          /\ lp.thread[i] = "none"
          /\ \A j \in 1..(i - 1) : lp.thread[j] # "none"
          /\ lp' = loop_start_thread(lp, c, i)
    /\ LoopFrame

LoopStop(c, request) ==
    /\ lp.caller[c] = "idle"
    /\ lp' = IF request THEN loop_request_stop(lp, c) ELSE loop_stop_by(lp, c)
    /\ LoopFrame

LoopJoin(c) ==
    /\ lp.caller[c] = "joining"
    /\ join_returns(lp)
    /\ lp' = [lp EXCEPT !.caller[c] = "idle"]
    /\ LoopFrame

LoopTest(i) ==
    /\ lp.thread[i] = "test"
    /\ lp' = loop_test(lp, i)
    /\ LoopFrame

LoopPass(i, outcome) ==
    /\ lp.thread[i] = "step"
    /\ lp' = loop_pass(lp, i, outcome)
    /\ LoopFrame

InitLoopSpec == InitJobsSpec

NextLoop ==
    \/ \E c \in LoopCallers, allowed \in BOOLEAN : LoopStartTests(c, allowed)
    \/ \E c \in LoopCallers : LoopStartThread(c)
    \/ \E c \in LoopCallers, request \in BOOLEAN : LoopStop(c, request)
    \/ \E c \in LoopCallers : LoopJoin(c)
    \/ \E i \in 1..LoopSlots : LoopTest(i)
    \/ \E i \in 1..LoopSlots, outcome \in {"next", "break", "stop"} : LoopPass(i, outcome)

SpecLoop == InitLoopSpec /\ [][NextLoop]_vars

(* Properties of SpecLoop *)

\* C36: at most one loop thread is executing control steps at any time.
C36_OneLoopThread == Cardinality({i \in 1..LoopSlots : lp.thread[i] = "step"}) <= 1

\* what the code guarantees: a loop thread whose test finds a stop request
\* or is_running false ends
C36_StoppedThreadEnds ==
    [][\A i \in 1..LoopSlots :
          (lp.thread[i] = "test" /\ lp'.thread[i] # "test" /\ ~loop_should_continue(lp)) =>
              lp'.thread[i] = "none"]_vars

-----------------------------------------------------------------------------
(* SpecClose: the close() calls made on the TCP client by the polling        *)
(* scheduler (update_mode and the read-failure handler of execute_task,      *)
(* mapping_polling_task.py) and by the TCP reconnect attempt                 *)
(* (auto_reconnect.py, modbusconnect_manager.py, modbustcp_manager.py).      *)
(* A step holds the locks the code takes for it; "closes" counts the close() *)
(* calls made on the client object that was last in use.                     *)

\* ModbusTCPConnectionManager.is_connected: connected and client and
\* client.is_socket_open()
close_is_connected(s) == s.connected /\ s.client = "open"

\* self.tcp_manager.client.close() by a thread that holds the connection_lock
\* of the manager "held"
client_close(s, held) ==
    [s EXCEPT !.client = "shut", !.closes = @ + 1,
              !.bare = @ \/ held # "tcp"]

\* "with self.tcp_manager.connection_lock: if self.tcp_manager.client:
\* client.close(); connected = False" of update_mode
close_force_tcp(s) ==
    IF s.client # "none" THEN [client_close(s, "tcp") EXCEPT !.connected = FALSE] ELSE s

\* MappingPollingTaskManager.update_mode
close_update_mode(s) ==
    IF close_is_connected(s)
    THEN [s EXCEPT !.current_mode = "tcp", !.paused = FALSE, !.switched = FALSE]
    ELSE IF s.rtu
    THEN [(IF s.current_mode = "tcp" THEN close_force_tcp(s) ELSE s)
             EXCEPT !.current_mode = "rtu", !.paused = FALSE,
                    !.switched = @ \/ s.current_mode = "tcp"]
    ELSE [(IF s.current_mode = "tcp" THEN close_force_tcp(s) ELSE s)
             EXCEPT !.current_mode = "none", !.paused = TRUE]

\* execute_task up to the choice of reader, manager and reconnect_mgr:
\* update_mode, wait_if_paused, then the three are taken by current_mode
close_pick(s0, is_bit) ==
    LET s == close_update_mode(s0)
    IN IF s.paused THEN s
       ELSE [s EXCEPT !.pc = "picked", !.is_bit = is_bit,
                      !.reader = IF s.current_mode = "tcp" THEN "tcp" ELSE "rtu"]

\* reader.read_coils / read_holding_registers: no client, or no answer
close_read_ok(s) ==
    IF s.reader = "tcp" THEN close_is_connected(s) /\ s.link.tcp
    ELSE s.rtu /\ s.link.rtu

\* the read of the task: a task that was read is put back on the queue
close_read(s) ==
    LET r == [s EXCEPT !.late = @ \/ (s.switched /\ s.closes = 0)]
    IN IF close_read_ok(s) THEN [r EXCEPT !.pc = "idle", !.reader = "none"]
       ELSE [r EXCEPT !.pc = "failed"]

\* "with manager.connection_lock: manager.connected = False", and for a
\* register task "if self.current_mode == 'tcp' and self.tcp_manager.client:
\* client.close(); self.tcp_manager.connected = False"
close_read_failed(s) ==
    LET marked == IF s.reader = "tcp" THEN [s EXCEPT !.connected = FALSE]
                  ELSE [s EXCEPT !.rtu = FALSE]
        closed == IF ~s.is_bit /\ s.current_mode = "tcp" /\ s.client # "none"
                  THEN [client_close(marked, s.reader) EXCEPT !.connected = FALSE]
                  ELSE marked
    IN [closed EXCEPT !.pc = "handled"]

\* "if reconnect_mgr and reconnect_mgr.is_active(): trigger_reconnect()", then
\* self.update_mode(); the task has failed and the worker takes the next one
close_after_failure(s) ==
    LET triggered == IF s.reader = "tcp" THEN [s EXCEPT !.reconnecting = TRUE] ELSE s
    IN [close_update_mode(triggered) EXCEPT !.pc = "idle", !.reader = "none"]

\* ModbusConnectionManagerBase.disconnect of the TCP manager
close_disconnect(s) ==
    IF s.client # "none"
    THEN [client_close(s, "tcp") EXCEPT !.connected = FALSE, !.client = "none"]
    ELSE s

\* ModbusTCPConnectionManager.start_tcpconnect: a new client, kept when it
\* connects; the old client, if one is left, is closed first
close_start_tcpconnect(s) ==
    IF s.connected THEN s
    ELSE LET old == IF s.client # "none" THEN client_close(s, "tcp") ELSE s
         IN IF s.link.tcp
            THEN [old EXCEPT !.client = "open", !.connected = TRUE, !.closes = 0,
                             !.bare = FALSE, !.switched = FALSE, !.late = FALSE]
            ELSE [old EXCEPT !.client = "none", !.connected = FALSE]

\* TcpAutoReconnectManager._attempt_reconnect: disconnect, start_tcpconnect;
\* after a success the callback (mapping_task_manager.resume) runs and the
\* reconnect loop ends, after a failure the next attempt is scheduled
close_attempt_reconnect(s0) ==
    LET s == close_start_tcpconnect(close_disconnect(s0))
    IN IF s.connected THEN [s EXCEPT !.reconnecting = FALSE, !.paused = FALSE] ELSE s

CloseFrame == CoreFrame /\ UNCHANGED <<bio, raw, sched, mon, ph, drv>> /\ UNCHANGED <<pt, ww, bw, cm, lp>>

\* the mode watchdog calls update_mode
ClWatchdog == tc' = close_update_mode(tc) /\ CloseFrame

\* the worker takes a task and chooses its reader
ClPick(is_bit) ==
    /\ tc.pc = "idle"
    /\ tc' = close_pick(tc, is_bit)
    /\ CloseFrame

ClRead ==
    /\ tc.pc = "picked"
    /\ tc' = close_read(tc)
    /\ CloseFrame

ClReadFailed ==
    /\ tc.pc = "failed"
    /\ tc' = close_read_failed(tc)
    /\ CloseFrame

ClAfterFailure ==
    /\ tc.pc = "handled"
    /\ tc' = close_after_failure(tc)
    /\ CloseFrame

\* the timer of the TCP supervisor runs an attempt
ClAttempt ==
    /\ tc.reconnecting
    /\ tc' = close_attempt_reconnect(tc)
    /\ CloseFrame

\* the RTU manager gets connected by its supervisor
ClRtuConnect ==
    /\ ~tc.rtu /\ tc.link.rtu
    /\ tc' = [tc EXCEPT !.rtu = TRUE]
    /\ CloseFrame

\* the PCBA starts or stops answering on a medium; when TCP stops, the peer
\* may close the socket (is_socket_open() turns false) or leave it open
ClLink(t, socket_closed) ==
    /\ tc' = IF t = "tcp" /\ tc.link.tcp /\ tc.client = "open" /\ socket_closed
             THEN [tc EXCEPT !.link.tcp = FALSE, !.client = "shut"]
             ELSE [tc EXCEPT !.link[t] = ~@]
    /\ (t = "tcp" /\ tc.link.tcp /\ tc.client = "open") \/ ~socket_closed
    /\ CloseFrame

InitCloseSpec == InitJobsSpec

NextClose ==
    \/ ClWatchdog
    \/ \E is_bit \in BOOLEAN : ClPick(is_bit)
    \/ ClRead
    \/ ClReadFailed
    \/ ClAfterFailure
    \/ ClAttempt
    \/ ClRtuConnect
    \/ \E t \in Transports, socket_closed \in BOOLEAN : ClLink(t, socket_closed)

SpecClose == InitCloseSpec /\ [][NextClose]_vars

\* C8: after the polling scheduler's mode has gone from tcp to rtu because TCP
\* became unhealthy, the TCP client that was in use has been closed exactly
\* once (not zero times, not more than once across update_mode, the failure
\* handler of the failing worker and the reconnect attempt), with the TCP
\* manager's connection_lock held at the close, and before any next polling
\* task performs its read.
C8_TcpClosedExactlyOnce ==
    tc.switched => tc.closes = 1 /\ ~tc.bare /\ ~tc.late

\* what the code keeps: the client has been closed at least once before the
\* mode is rtu and before any further read
C8_TcpClosedBeforeRtu ==
    tc.switched => tc.closes >= 1 /\ ~tc.late

-----------------------------------------------------------------------------
(* SpecMap: ProcessedRegisterMap.set_coil and set_register called with any   *)
(* address, value, force and trigger_callback, by any caller.                *)

\* addresses on both sides of the ends of the map and of the write ranges
MapCoilInputs ==
    {COIL_WRITE_ENABLE, COIL_FAN_SWITCH_READ_START, COIL_FAN_SWITCH_WRITE_START,
     COIL_FAN_SWITCH_WRITE_END - 1, COIL_FAN_SWITCH_WRITE_END,
     IO_OUTPUT_BATCH_SWITCH_COIL, IO_OUTPUT_BATCH_SWITCH_COIL + 1,
     CoilMapSize - 1, CoilMapSize}
MapCoilValues == {0, 1, 2}
MapRegisterInputs ==
    {0, CONTROL_MODE - 1, CONTROL_MODE, CONTROL_MODE + 1, PUMP_DUTY_WRITE_START,
     PUMP_DUTY_WRITE_END, PUMP_BATCH_DUTY_REGISTER, RegMapSize - 1, RegMapSize}
MapRegisterValues == {1, 2}

AfterSetCoil(address, value, force, trigger_callback) ==
    call(State, "set_coil", <<address, value, force, trigger_callback, FALSE>>)

AfterSetRegister(address, value, trigger_callback) ==
    call(State, "set_register", <<address, value, trigger_callback, FALSE>>)

\* the program's variables after the call has returned state s; the callback
\* invocations of the call are kept
CommitMap(s) ==
    /\ Bounded(s)
    /\ coils' = s.coils
    /\ regs' = s.regs
    /\ w' = s.w
    /\ ac' = s.ac
    /\ pids' = s.pids
    /\ we_last' = s.we_last
    /\ fanTimer' = s.fanTimer
    /\ cbs' = s.cbs
    /\ cfg' = s.cfg
    /\ fired' = s.fired
    /\ submitted' = s.submitted
    /\ UNCHANGED <<conn, queue, calls, poll, tq, sup, lf>>
    /\ UnitsFrame

MapSetCoil(address, value, force, trigger_callback) ==
    \E s \in {AfterSetCoil(address, value, force, trigger_callback)} : CommitMap(s)

MapSetRegister(address, value, trigger_callback) ==
    \E s \in {AfterSetRegister(address, value, trigger_callback)} : CommitMap(s)

\* the map as constructed, the TCP transport connected
InitMapSpec == ControlInit /\ poll = InitPoll /\ tq = InitQueue /\ sup = InitSup /\ lf = InitLf

NextMap ==
    \/ \E a \in MapCoilInputs, v \in MapCoilValues, force \in BOOLEAN,
          trigger_callback \in BOOLEAN :
            MapSetCoil(a, v, force, trigger_callback)
    \/ \E a \in MapRegisterInputs, v \in MapRegisterValues, trigger_callback \in BOOLEAN :
            MapSetRegister(a, v, trigger_callback)

SpecMap == InitMapSpec /\ [][NextMap]_vars

\* the declared write ranges, as address sets
CoilWriteAddresses == {0} \cup 33..63 \cup 97..129 \cup 266..298
RegisterWriteAddresses ==
    395..397 \cup {399} \cup 432..463 \cup {560} \cup 632..663 \cup {799}
        \cup 808..815 \cup {832}

\* the call has invoked every callback of the list with (address, val)
InvokedAll(s, list, kind, address, val) ==
    \A k \in 1..Len(list) : \E j \in 1..Len(s.fired) : s.fired[j] = <<list[k], kind, address, val>>

\* the call has invoked no callback for the address
InvokedNone(s, kind, address) ==
    \A j \in 1..Len(s.fired) : ~(s.fired[j][2] = kind /\ s.fired[j][3] = address)

\* C5: for every address inside the map, set_coil(a, v, force,
\* trigger_callback) invokes the registered coil callbacks iff trigger_callback
\* and (a is in a coil write range or force), and set_register(a, v,
\* trigger_callback) invokes the registered register callbacks iff
\* trigger_callback and a is in a register write range; a non-forced set of an
\* address outside the write ranges invokes no callback, whatever the value.
C5_CallbacksIffTriggeredInRange ==
    /\ \A a \in MapCoilInputs \cap 0..(CoilMapSize - 1), v \in MapCoilValues :
          \A force \in BOOLEAN, trigger_callback \in BOOLEAN :
              \A s \in {AfterSetCoil(a, v, force, trigger_callback)} :
                  IF trigger_callback /\ (force \/ a \in CoilWriteAddresses)
                  THEN InvokedAll(s, cbs.coil, "coil", a, IF v = 0 THEN 0 ELSE 1)
                  ELSE InvokedNone(s, "coil", a)
    /\ \A a \in MapRegisterInputs \cap 0..(RegMapSize - 1), v \in MapRegisterValues :
          \A trigger_callback \in BOOLEAN :
              \A s \in {AfterSetRegister(a, v, trigger_callback)} :
                  IF trigger_callback /\ a \in RegisterWriteAddresses
                  THEN InvokedAll(s, cbs.register, "register", a, v)
                  ELSE InvokedNone(s, "register", a)

\* a forced set of a coil outside the write ranges has invoked the callbacks
\* registered by then, the control manager's among them
C5_Witness ==
    /\ Len(cbs.coil) > 1
    /\ \A k \in 1..Len(cbs.coil) :
          \E j \in 1..Len(fired) : fired[j] = <<cbs.coil[k], "coil", COIL_FAN_SWITCH_READ_START, 1>>
    /\ \A v \in MapCoilValues :
          InvokedNone(AfterSetCoil(COIL_FAN_SWITCH_READ_START, v, FALSE, TRUE),
                      "coil", COIL_FAN_SWITCH_READ_START)

====
